---- MODULE Spec2Model ----
(***************************************************************************)
(* Model of the Crucible Terraform provider:                               *)
(*   - the authenticated API client (client.CrucibleClient): OAuth2 token  *)
(*     cache behind a sync.RWMutex, DoRequest with its single retry on     *)
(*     401, the verb helpers and HandleAPIError;                           *)
(*   - the existence checks and the view resource's Read and Delete;       *)
(*   - the view reconciliation of the SDK v1 resource (updateApps,         *)
(*     updateTeams, updateUsers, updateInstances) and the remote calls it  *)
(*     issues.                                                             *)
(* JSON-serialisable request bodies and well-formed URLs only: the         *)
(* json.Marshal and http.NewRequest error returns are not reachable.       *)
(***************************************************************************)
EXTENDS Integers, Sequences, FiniteSets, TLC

VARIABLES
    token,      \* CrucibleClient.token: NoToken (nil) or [access, expiry]
    now,        \* wall clock read by oauth2.Token.Valid
    rlock,      \* goroutines holding tokenMutex.RLock
    wlock,      \* goroutine holding tokenMutex.Lock, 0 when free
    exchanges,  \* requests received by the token endpoint
    issued,     \* tokens handed out by the token endpoint, in order
    procs,      \* goroutines using the client
    pc,         \* position of each goroutine
    retpc,      \* where GetToken returns to
    op,         \* the operation each goroutine runs
    tok,        \* access token returned by the last GetToken (0 is "")
    err,        \* error of the innermost call ("" is nil)
    attempts,   \* requests this operation sent to the API server
    res,        \* what the operation returned to its caller
    start,      \* cache, clock and endpoint counter when the operation began
    prev,       \* outcome of the goroutine's previous operation
    nops,       \* operations started by each goroutine
    eng         \* the reconciliation pass (see the engine section)

cvars == <<token, now, rlock, wlock, exchanges, issued, procs, pc, retpc, op,
           tok, err, attempts, res, start, prev, nops>>
vars == <<token, now, rlock, wlock, exchanges, issued, procs, pc, retpc, op,
          tok, err, attempts, res, start, prev, nops, eng>>

----------------------------------------------------------------------------
(* Bounds *)

NumCallers == 2
MaxOps == 3
MaxTime == 2
MaxExchanges == 3

----------------------------------------------------------------------------
(* Tokens *)

NoToken == [access |-> 0, expiry |-> 0]

\* lifetimes the token endpoint hands out: one tick, or beyond the horizon
TTLs == {1, MaxTime + 1}

\* oauth2.Token.Valid: an access token is present and its expiry lies ahead
Valid(t, clock) == t.access /= 0 /\ clock < t.expiry

CachedValidNoExpiry(t, clock) == t /= NoToken

\* fast path: c.token != nil && c.token.Valid()
CachedValid(t, clock) == t /= NoToken /\ Valid(t, clock)

DoubleCheckNone(t, clock) == FALSE

\* slow path, under the write lock: c.token != nil && c.token.Valid()
DoubleCheck(t, clock) == t /= NoToken /\ Valid(t, clock)

NewToken(n, clock, ttl) == [access |-> n, expiry |-> clock + ttl]

----------------------------------------------------------------------------
(* HTTP responses *)

Absent == "<absent>"
NonString == "<nonstring>"
FieldValues(s) == {Absent, NonString, s}

EmptyBody == [kind |-> "empty", message |-> Absent, error |-> Absent, title |-> Absent]
TextBody == [kind |-> "text", message |-> Absent, error |-> Absent, title |-> Absent]
ArrayBody == [kind |-> "array", message |-> Absent, error |-> Absent, title |-> Absent]
ObjectBodies == [kind : {"object"}, message : FieldValues("M"),
                 error : FieldValues("E"), title : FieldValues("T")]
Bodies == {EmptyBody, TextBody, ArrayBody} \cup ObjectBodies
MessageBody == [kind |-> "object", message |-> "M", error |-> Absent, title |-> Absent]
SomeBodies == {EmptyBody, TextBody, MessageBody}

Statuses == {200, 201, 204, 401, 403, 404, 500}

NoResp == [status |-> 0, body |-> EmptyBody]

StatusPhrase(s) ==
    CASE s = 200 -> "200 OK"
      [] s = 201 -> "201 Created"
      [] s = 204 -> "204 No Content"
      [] s = 401 -> "401 Unauthorized"
      [] s = 403 -> "403 Forbidden"
      [] s = 404 -> "404 Not Found"
      [] s = 500 -> "500 Internal Server Error"
      [] OTHER -> "unknown"

\* json.Unmarshal(bodyBytes, &map[string]interface{}): only an object parses
ParsesAsObject(body) == body.kind = "object"

IsString(v) == v /= Absent /\ v /= NonString

ExtractMessageReversed(body, phrase) ==
    IF ~ParsesAsObject(body) THEN phrase
    ELSE IF IsString(body.title) THEN body.title
    ELSE IF IsString(body.error) THEN body.error
    ELSE IF IsString(body.message) THEN body.message
    ELSE phrase

ExtractMessage(body, phrase) ==
    IF ~ParsesAsObject(body) THEN phrase
    ELSE IF IsString(body.message) THEN body.message
    ELSE IF IsString(body.error) THEN body.error
    ELSE IF IsString(body.title) THEN body.title
    ELSE phrase

HandleAPIError(resp) ==
    [StatusCode |-> resp.status,
     Message |-> IF resp.body.kind /= "empty"
                 THEN ExtractMessage(resp.body, StatusPhrase(resp.status))
                 ELSE StatusPhrase(resp.status),
     Body |-> resp.body]

NoAPIError == [StatusCode |-> 0, Message |-> "", Body |-> EmptyBody]

\* json.NewDecoder(resp.Body).Decode(target) into a struct or map
DecodeResponse(body) == body.kind = "object"

----------------------------------------------------------------------------
(* Requests *)

NoBody == "nil"
Payload == "payload"

\* json.Marshal(body), "" when DoRequest builds no body reader
Marshal(body) == IF body = NoBody THEN "" ELSE "{payload}"

\* the body the retry carries: marshalled again from the caller's value
MarshalRetry(body) == IF body = NoBody THEN "" ELSE "{payload}"

\* one entry of the request log: what was sent, the status and body that came
\* back (status 0: no response), and the endpoint counter at that moment
Request(stage, method, url, body, auth, status, rbody, ex) ==
    [stage |-> stage, method |-> method, url |-> url, body |-> body,
     auth |-> auth, ctype |-> body /= "", status |-> status, rbody |-> rbody,
     ex |-> ex]

Kinds == {"GetToken", "DoRequest", "DoGet", "DoPost", "DoPut", "DoDelete",
          "ViewExists", "Read", "Delete"}

MethodOf(kind, stage) ==
    CASE kind = "DoGet" -> "GET"
      [] kind = "DoPost" -> "POST"
      [] kind = "DoPut" -> "PUT"
      [] kind = "DoDelete" -> "DELETE"
      [] kind = "ViewExists" -> "GET"
      [] kind = "Read" -> "GET"
      [] kind = "Delete" -> IF stage = 1 THEN "GET" ELSE "DELETE"
      [] OTHER -> "GET"

NoOp == [kind |-> "none", method |-> "", url |-> "", body |-> NoBody,
         target |-> FALSE, stage |-> 0]

NoRes == [done |-> FALSE, err |-> "", apierr |-> NoAPIError, resp |-> NoResp,
          exists |-> FALSE, out |-> ""]

NoStart == [token |-> NoToken, now |-> 0, exchanges |-> 0]

NoPrev == [kind |-> "none", err |-> ""]

----------------------------------------------------------------------------
(* The verb helpers and the existence check, applied to what DoRequest     *)
(* returned: r is the response, e the error ("" is nil).                   *)

Helper(e, apierr, value) == [err |-> e, apierr |-> apierr, resp |-> value]

DoGetAccepts201(s) == s = 200 \/ s = 201

DoGetAccepts(s) == s = 200

DoPostAccepts(s) == s = 200 \/ s = 201

DoPutAccepts(s) == s = 200 \/ s = 204

DoDeleteAccepts(s) == s = 200 \/ s = 204 \/ s = 404

DoGetResult(r, e) ==
    IF e /= "" THEN Helper(e, NoAPIError, NoResp)
    ELSE IF ~DoGetAccepts(r.status) THEN Helper("api", HandleAPIError(r), NoResp)
    ELSE IF ~DecodeResponse(r.body) THEN Helper("decode", NoAPIError, NoResp)
    ELSE Helper("", NoAPIError, r)

DoPostResult(r, e, target) ==
    IF e /= "" THEN Helper(e, NoAPIError, NoResp)
    ELSE IF ~DoPostAccepts(r.status) THEN Helper("api", HandleAPIError(r), NoResp)
    ELSE IF target /\ ~DecodeResponse(r.body) THEN Helper("decode", NoAPIError, NoResp)
    ELSE Helper("", NoAPIError, r)

DoPutResult(r, e) ==
    IF e /= "" THEN Helper(e, NoAPIError, NoResp)
    ELSE IF ~DoPutAccepts(r.status) THEN Helper("api", HandleAPIError(r), NoResp)
    ELSE Helper("", NoAPIError, r)

DoDeleteResult(r, e) ==
    IF e /= "" THEN Helper(e, NoAPIError, NoResp)
    ELSE IF ~DoDeleteAccepts(r.status) THEN Helper("api", HandleAPIError(r), NoResp)
    ELSE Helper("", NoAPIError, r)

\* ViewExists, VMExists, UserExists, AppTemplateExists: the same body
ExistsResult(r, e) ==
    IF e /= "" THEN [exists |-> FALSE, err |-> e]
    ELSE [exists |-> r.status = 200, err |-> ""]

----------------------------------------------------------------------------
(* State after construction (NewClient): nothing cached, nobody running.   *)

EngIdle == [phase |-> "idle"]

ClientInit(ps) ==
    /\ token = NoToken
    /\ now = 0
    /\ rlock = {}
    /\ wlock = 0
    /\ exchanges = 0
    /\ issued = <<>>
    /\ procs = ps
    /\ pc = [p \in ps |-> "idle"]
    /\ retpc = [p \in ps |-> "done"]
    /\ op = [p \in ps |-> NoOp]
    /\ tok = [p \in ps |-> 0]
    /\ err = [p \in ps |-> ""]
    /\ attempts = [p \in ps |-> <<>>]
    /\ res = [p \in ps |-> NoRes]
    /\ start = [p \in ps |-> NoStart]
    /\ prev = [p \in ps |-> NoPrev]
    /\ nops = [p \in ps |-> 0]

\* time passes
Tick ==
    /\ now < MaxTime
    /\ now' = now + 1
    /\ UNCHANGED <<token, rlock, wlock, exchanges, issued, procs, pc, retpc, op,
                   tok, err, attempts, res, start, prev, nops, eng>>

\* a goroutine calls one operation of the client or of the view resource and
\* runs up to the RLock that opens the operation's first GetToken
Begin(p, kind, method, body, target) ==
    /\ pc[p] \in {"idle", "done"}
    /\ nops[p] < MaxOps
    /\ wlock = 0
    /\ rlock' = rlock \cup {p}
    /\ nops' = [nops EXCEPT ![p] = @ + 1]
    /\ prev' = [prev EXCEPT ![p] = [kind |-> IF op[p].kind = "GetToken" THEN "GetToken" ELSE "other",
                                     err |-> IF op[p].kind = "GetToken" THEN res[p].err ELSE ""]]
    /\ op' = [op EXCEPT ![p] = [kind |-> kind, method |-> method, url |-> "views/v1",
                                 body |-> body, target |-> target,
                                 stage |-> 1]]
    /\ attempts' = [attempts EXCEPT ![p] = <<>>]
    /\ res' = [res EXCEPT ![p] = NoRes]
    /\ tok' = [tok EXCEPT ![p] = 0]
    /\ err' = [err EXCEPT ![p] = ""]
    /\ pc' = [pc EXCEPT ![p] = "gt_fast"]
    /\ retpc' = [retpc EXCEPT ![p] = IF kind = "GetToken" THEN "done" ELSE "dr_send1"]
    /\ UNCHANGED <<token, now, wlock, exchanges, issued, procs, start, eng>>

CallGetToken(p) == Begin(p, "GetToken", "", NoBody, FALSE)

CallDoRequest(p) ==
    \/ Begin(p, "DoRequest", "GET", NoBody, FALSE)
    \/ Begin(p, "DoRequest", "POST", Payload, FALSE)

CallHelper(p) ==
    \/ Begin(p, "DoGet", "GET", NoBody, TRUE)
    \/ \E b \in {NoBody, Payload}, t \in BOOLEAN : Begin(p, "DoPost", "POST", b, t)
    \/ \E b \in {NoBody, Payload} : Begin(p, "DoPut", "PUT", b, FALSE)
    \/ Begin(p, "DoDelete", "DELETE", NoBody, FALSE)

CallResource(p) ==
    \E k \in {"ViewExists", "Read", "Delete"} : Begin(p, k, "GET", NoBody, FALSE)

----------------------------------------------------------------------------
(* What the caller of DoRequest does with (r, e).  "next" is the position  *)
(* the goroutine continues at: "done", or "gt_rlock" when the resource     *)
(* operation goes on to its second request.                                *)

Outcome(next, e, apierr, value, exists, out) ==
    [next |-> next,
     res |-> [done |-> next = "done", err |-> e, apierr |-> apierr, resp |-> value,
              exists |-> exists, out |-> out]]

FromHelper(h, out) == Outcome("done", h.err, h.apierr, h.resp, FALSE, out)

\* viewResource.Read
ViewRead(stage, r, e) ==
    IF stage = 1
    THEN LET x == ExistsResult(r, e) IN
         IF x.err /= "" THEN Outcome("done", x.err, NoAPIError, NoResp, FALSE, "error")
         ELSE IF ~x.exists THEN Outcome("done", "", NoAPIError, NoResp, FALSE, "removed")
         ELSE Outcome("gt_rlock", "", NoAPIError, NoResp, TRUE, "")
    ELSE LET h == DoGetResult(r, e) IN
         IF h.err /= "" THEN FromHelper(h, "error") ELSE FromHelper(h, "saved")

\* viewResource.Delete
ViewDelete(stage, r, e) ==
    IF stage = 1
    THEN LET x == ExistsResult(r, e) IN
         IF x.err /= "" THEN Outcome("done", x.err, NoAPIError, NoResp, FALSE, "error")
         ELSE IF ~x.exists THEN Outcome("done", "", NoAPIError, NoResp, FALSE, "noop")
         ELSE Outcome("gt_rlock", "", NoAPIError, NoResp, TRUE, "")
    ELSE LET h == DoDeleteResult(r, e) IN
         IF h.err /= "" THEN FromHelper(h, "error") ELSE FromHelper(h, "deleted")

After(o, r, e) ==
    CASE o.kind = "DoRequest" -> Outcome("done", e, NoAPIError, r, FALSE, "")
      [] o.kind = "DoGet" -> FromHelper(DoGetResult(r, e), "")
      [] o.kind = "DoPost" -> FromHelper(DoPostResult(r, e, o.target), "")
      [] o.kind = "DoPut" -> FromHelper(DoPutResult(r, e), "")
      [] o.kind = "DoDelete" -> FromHelper(DoDeleteResult(r, e), "")
      [] o.kind = "ViewExists" ->
            LET x == ExistsResult(r, e) IN
            Outcome("done", x.err, NoAPIError, NoResp, x.exists, "")
      [] o.kind = "Read" -> ViewRead(o.stage, r, e)
      [] o.kind = "Delete" -> ViewDelete(o.stage, r, e)

\* DoRequest returns (r, e) to its caller, which runs on to its own return or
\* to its next request
Return(p, r, e) ==
    LET a == After(op[p], r, e) IN
    /\ pc' = [pc EXCEPT ![p] = a.next]
    /\ res' = [res EXCEPT ![p] = a.res]
    /\ retpc' = [retpc EXCEPT ![p] = "dr_send1"]
    /\ op' = [op EXCEPT ![p] =
                 IF a.next = "done" THEN @
                 ELSE [@ EXCEPT !.stage = 2, !.method = MethodOf(op[p].kind, 2)]]

\* GetToken returns (t, e) to its caller
TokenReturn(p, t, e) ==
    /\ tok' = [tok EXCEPT ![p] = t]
    /\ err' = [err EXCEPT ![p] = e]
    /\ IF retpc[p] = "done"
       THEN /\ pc' = [pc EXCEPT ![p] = "done"]
            /\ res' = [res EXCEPT ![p] = [NoRes EXCEPT !.done = TRUE, !.err = e]]
            /\ UNCHANGED <<retpc, op>>
       ELSE IF e /= ""
       THEN Return(p, NoResp, e)
       ELSE /\ pc' = [pc EXCEPT ![p] = retpc[p]]
            /\ UNCHANGED <<res, retpc, op>>

----------------------------------------------------------------------------
(* CrucibleClient.GetToken *)

\* c.tokenMutex.RLock()
GetTokenRLock(p) ==
    /\ pc[p] = "gt_rlock"
    /\ wlock = 0
    /\ rlock' = rlock \cup {p}
    /\ pc' = [pc EXCEPT ![p] = "gt_fast"]
    /\ UNCHANGED <<token, now, wlock, exchanges, issued, procs, retpc, op, tok, err,
                   attempts, res, start, prev, nops, eng>>

\* fast path: return the cached token if it is valid, then RUnlock
GetTokenFast(p) ==
    /\ pc[p] = "gt_fast"
    /\ rlock' = rlock \ {p}
    /\ IF CachedValid(token, now)
       THEN TokenReturn(p, token.access, "")
       ELSE /\ pc' = [pc EXCEPT ![p] = "gt_lock"]
            /\ UNCHANGED <<tok, err, res, retpc, op>>
    /\ start' = [start EXCEPT ![p] =
                    IF retpc[p] = "dr_send2" THEN @
                    ELSE [token |-> token, now |-> now, exchanges |-> exchanges]]
    /\ UNCHANGED <<token, now, wlock, exchanges, issued, procs, attempts,
                   prev, nops, eng>>

\* c.tokenMutex.Lock()
GetTokenLock(p) ==
    /\ pc[p] = "gt_lock"
    /\ wlock = 0
    /\ rlock = {}
    /\ wlock' = p
    /\ pc' = [pc EXCEPT ![p] = "gt_check"]
    /\ UNCHANGED <<token, now, rlock, exchanges, issued, procs, retpc, op, tok, err,
                   attempts, res, start, prev, nops, eng>>

\* double-check under the write lock
GetTokenCheck(p) ==
    /\ pc[p] = "gt_check"
    /\ IF DoubleCheck(token, now)
       THEN /\ wlock' = 0
            /\ TokenReturn(p, token.access, "")
       ELSE /\ pc' = [pc EXCEPT ![p] = "gt_fetch"]
            /\ UNCHANGED <<wlock, tok, err, res, retpc, op>>
    /\ UNCHANGED <<token, now, rlock, exchanges, issued, procs, attempts, start,
                   prev, nops, eng>>

AfterFailedExchangeClear(cached) == NoToken

\* the cache when the exchange failed: the error return comes before the store
AfterFailedExchange(cached) == cached

\* oauthConfig.PasswordCredentialsToken: the endpoint answers with a token or
\* the exchange fails; the deferred Unlock runs on both returns
GetTokenFetch(p) ==
    /\ pc[p] = "gt_fetch"
    /\ exchanges < MaxExchanges
    /\ exchanges' = exchanges + 1
    /\ wlock' = 0
    /\ \/ \E ttl \in TTLs :
             LET t == NewToken(exchanges + 1, now, ttl) IN
             /\ token' = t
             /\ issued' = Append(issued, t)
             /\ TokenReturn(p, t.access, "")
       \/ /\ TokenReturn(p, 0, "auth")
          /\ token' = AfterFailedExchange(token)
          /\ UNCHANGED issued
    /\ UNCHANGED <<now, rlock, procs, attempts, start, prev, nops, eng>>

----------------------------------------------------------------------------
(* CrucibleClient.DoRequest *)

Transport == "transport"

Sent(p, body, status, rbody) ==
    Append(attempts[p], Request(op[p].stage, op[p].method, op[p].url, body,
                                tok[p], status, rbody, exchanges))

DoRequestSendRetrying(p, bodies) ==
    /\ pc[p] = "dr_send1"
    /\ \/ /\ attempts' = [attempts EXCEPT ![p] = Sent(p, Marshal(op[p].body), 0, EmptyBody)]
          /\ pc' = [pc EXCEPT ![p] = "dr_inval"]
          /\ UNCHANGED <<res, retpc, op>>
       \/ /\ attempts' = [attempts EXCEPT ![p] = Sent(p, Marshal(op[p].body), 401, EmptyBody)]
          /\ pc' = [pc EXCEPT ![p] = "dr_inval"]
          /\ UNCHANGED <<res, retpc, op>>
       \/ \E s \in Statuses \ {401}, b \in bodies :
             /\ attempts' = [attempts EXCEPT ![p] = Sent(p, Marshal(op[p].body), s, b)]
             /\ Return(p, [status |-> s, body |-> b], "")
    /\ UNCHANGED <<token, now, rlock, wlock, exchanges, issued, procs, tok, err,
                   start, prev, nops, eng>>

\* first attempt: httpClient.Do(req) with the token GetToken returned
DoRequestSend(p, bodies) ==
    /\ pc[p] = "dr_send1"
    /\ \/ /\ attempts' = [attempts EXCEPT ![p] = Sent(p, Marshal(op[p].body), 0, EmptyBody)]
          /\ Return(p, NoResp, Transport)
       \/ /\ attempts' = [attempts EXCEPT ![p] = Sent(p, Marshal(op[p].body), 401, EmptyBody)]
          /\ pc' = [pc EXCEPT ![p] = "dr_inval"]
          /\ UNCHANGED <<res, retpc, op>>
       \/ \E s \in Statuses \ {401}, b \in bodies :
             /\ attempts' = [attempts EXCEPT ![p] = Sent(p, Marshal(op[p].body), s, b)]
             /\ Return(p, [status |-> s, body |-> b], "")
    /\ UNCHANGED <<token, now, rlock, wlock, exchanges, issued, procs, tok, err,
                   start, prev, nops, eng>>

InvalidateKeep(cached) == cached

\* what the 401 branch stores in c.token
Invalidate(cached) == NoToken

\* after a 401: Lock, c.token = nil, Unlock, then GetToken again
DoRequestInvalidate(p) ==
    /\ pc[p] = "dr_inval"
    /\ wlock = 0
    /\ rlock = {}
    /\ token' = Invalidate(token)
    /\ pc' = [pc EXCEPT ![p] = "gt_rlock"]
    /\ retpc' = [retpc EXCEPT ![p] = "dr_send2"]
    /\ UNCHANGED <<now, rlock, wlock, exchanges, issued, procs, op, tok, err,
                   attempts, res, start, prev, nops, eng>>

\* the retry: the request is built again and sent once; whatever comes back
\* is returned
DoRequestRetry(p, bodies) ==
    /\ pc[p] = "dr_send2"
    /\ \/ /\ attempts' = [attempts EXCEPT ![p] = Sent(p, MarshalRetry(op[p].body), 0, EmptyBody)]
          /\ Return(p, NoResp, Transport)
       \/ \E s \in Statuses, b \in bodies :
             /\ attempts' = [attempts EXCEPT ![p] = Sent(p, MarshalRetry(op[p].body), s, b)]
             /\ Return(p, [status |-> s, body |-> b], "")
    /\ UNCHANGED <<token, now, rlock, wlock, exchanges, issued, procs, tok, err,
                   start, prev, nops, eng>>

----------------------------------------------------------------------------
(* One goroutine calling GetToken on a new client, one call after another. *)

Init == ClientInit({1}) /\ eng = EngIdle

Next ==
    \/ Tick
    \/ \E p \in procs :
          \/ CallGetToken(p)
          \/ GetTokenRLock(p)
          \/ GetTokenFast(p)
          \/ GetTokenLock(p)
          \/ GetTokenCheck(p)
          \/ GetTokenFetch(p)

Spec == Init /\ [][Next]_vars

(* NumCallers goroutines calling GetToken on the same client.              *)

InitCallers == ClientInit(1..NumCallers) /\ eng = EngIdle

\* each caller makes one call
CallGetTokenOnce(p) == nops[p] = 0 /\ CallGetToken(p)

NextCallers ==
    \/ Tick
    \/ \E p \in procs :
          \/ CallGetTokenOnce(p)
          \/ GetTokenRLock(p)
          \/ GetTokenFast(p)
          \/ GetTokenLock(p)
          \/ GetTokenCheck(p)
          \/ GetTokenFetch(p)

SpecCallers == InitCallers /\ [][NextCallers]_vars

(* One goroutine that makes one request on a client it has just built, or  *)
(* on one it has called GetToken on before.                                *)

NoRequestYet(p) == op[p].kind \in {"none", "GetToken"}

NextRequests ==
    \/ Tick
    \/ \E p \in procs :
          \/ CallGetTokenOnce(p)
          \/ NoRequestYet(p) /\ CallDoRequest(p)
          \/ NoRequestYet(p) /\ CallHelper(p)
          \/ NoRequestYet(p) /\ CallResource(p)
          \/ GetTokenRLock(p)
          \/ GetTokenFast(p)
          \/ GetTokenLock(p)
          \/ GetTokenCheck(p)
          \/ GetTokenFetch(p)
          \/ DoRequestSend(p, SomeBodies)
          \/ DoRequestInvalidate(p)
          \/ DoRequestRetry(p, SomeBodies)

SpecRequests == Init /\ [][NextRequests]_vars

(* The same goroutine calling a verb helper against a server that answers  *)
(* with every kind of body.                                                *)

NextHelpers ==
    \/ Tick
    \/ \E p \in procs :
          \/ CallGetTokenOnce(p)
          \/ NoRequestYet(p) /\ CallHelper(p)
          \/ GetTokenRLock(p)
          \/ GetTokenFast(p)
          \/ GetTokenLock(p)
          \/ GetTokenCheck(p)
          \/ GetTokenFetch(p)
          \/ DoRequestSend(p, Bodies)
          \/ DoRequestInvalidate(p)
          \/ DoRequestRetry(p, Bodies)

SpecHelpers == Init /\ [][NextHelpers]_vars

----------------------------------------------------------------------------
(* Properties of the client *)

\* a token that is there and has not expired at the given time
Fresh(t, clock) == t.access /= 0 /\ clock < t.expiry

Returned(p) == pc[p] = "done"

\* the requests of the DoRequest call the operation made last
LastCall(p) == SelectSeq(attempts[p], LAMBDA a : a.stage = op[p].stage)

\* the requests of the existence check of a resource operation
ExistsCall(p) == SelectSeq(attempts[p], LAMBDA a : a.stage = 1)

Final(call) == call[Len(call)]

EveryCallerReturned == \A p \in procs : nops[p] = 1 /\ Returned(p)

EndpointSucceeded == Len(issued) = exchanges

EveryCallerSawEmptyCache == \A p \in procs : start[p].token = NoToken

\* C1 as stated: callers that all found the cache empty, with an endpoint that
\* never fails, cause exactly one exchange and all return its token.
C1_ExactlyOneExchange ==
    (EveryCallerReturned /\ EndpointSucceeded /\ EveryCallerSawEmptyCache)
        => /\ exchanges = 1
           /\ \A p \in procs : tok[p] = issued[1].access

\* C1 (amended): callers that all found the cache empty, with an endpoint that
\* never fails, cause exactly one exchange and all return its token, provided
\* the token of the first exchange has not expired when the last caller
\* returns.
C1_OneExchangeWhileFresh ==
    (/\ EveryCallerReturned /\ EndpointSucceeded /\ EveryCallerSawEmptyCache
     /\ Len(issued) > 0 /\ Fresh(issued[1], now))
        => /\ exchanges = 1
           /\ \A p \in procs : tok[p] = issued[1].access

C1_Witness ==
    /\ Cardinality(procs) >= 2
    /\ EveryCallerReturned /\ EveryCallerSawEmptyCache
    /\ exchanges = 1 /\ Len(issued) = 1 /\ Fresh(issued[1], now)
    /\ \A p \in procs : tok[p] = issued[1].access

\* C2: a GetToken call makes an exchange exactly when the cache it finds is
\* empty or expired; a fresh cached token is returned with no exchange and
\* the cache untouched; otherwise one exchange is made and, when it succeeds,
\* its token is stored and returned, never the stale one.
C2_ExchangeIffStale ==
    \A p \in procs :
        (Returned(p) /\ op[p].kind = "GetToken") =>
            LET s == start[p]
                n == exchanges - s.exchanges
                hit == Fresh(s.token, s.now)
            IN /\ n = (IF hit THEN 0 ELSE 1)
               /\ hit => /\ res[p].err = ""
                          /\ tok[p] = s.token.access
                          /\ token = s.token
               /\ (~hit /\ res[p].err = "") =>
                          /\ Len(issued) > 0
                          /\ token = issued[Len(issued)]
                          /\ token /= s.token
                          /\ tok[p] = token.access
                          /\ tok[p] /= s.token.access

C2_Witness ==
    \E p \in procs :
        /\ Returned(p) /\ op[p].kind = "GetToken" /\ res[p].err = ""
        /\ start[p].token /= NoToken /\ ~Fresh(start[p].token, start[p].now)
        /\ exchanges = start[p].exchanges + 1
        /\ tok[p] = token.access /\ token /= start[p].token

\* C3: a failed exchange makes GetToken return an error and no token and
\* leaves the cache as the call found it, still without a fresh token, and
\* the GetToken call that follows makes an exchange again.
C3_FailureStoresNothing ==
    \A p \in procs :
        (Returned(p) /\ op[p].kind = "GetToken") =>
            /\ res[p].err /= "" =>
                  /\ res[p].err = "auth"
                  /\ tok[p] = 0
                  /\ token = start[p].token
                  /\ ~Fresh(token, now)
                  /\ exchanges = start[p].exchanges + 1
            /\ (prev[p].kind = "GetToken" /\ prev[p].err = "auth") =>
                  exchanges = start[p].exchanges + 1

C3_Witness ==
    \E p \in procs :
        /\ Returned(p) /\ op[p].kind = "GetToken" /\ res[p].err = "auth"
        /\ prev[p].kind = "GetToken" /\ prev[p].err = "auth"
        /\ start[p].token /= NoToken /\ token = start[p].token
        /\ exchanges = start[p].exchanges + 1

SuccessStatus(s) == s \in {200, 201, 204}

\* C4: a request sent with a cached token and answered 401, whose retry is
\* answered with a success status, makes two attempts with one exchange
\* between them; the retry carries the token of that exchange and the same
\* method, URL and body, and DoRequest returns the retry's response, no error.
C4_RetryWithFreshToken ==
    \A p \in procs :
        LET c == LastCall(p) IN
        (/\ Returned(p) /\ op[p].kind = "DoRequest" /\ Len(c) >= 2
         /\ c[1].status = 401 /\ SuccessStatus(c[2].status)) =>
            /\ Len(c) = 2
            /\ c[2].ex = c[1].ex + 1
            /\ Len(issued) > 0
            /\ c[2].auth = issued[Len(issued)].access
            /\ c[2].auth /= c[1].auth
            /\ c[2].method = c[1].method
            /\ c[2].url = c[1].url
            /\ c[2].body = c[1].body
            /\ c[2].ctype = c[1].ctype
            /\ res[p].err = ""
            /\ res[p].resp = [status |-> c[2].status, body |-> c[2].rbody]

C4_Witness ==
    \E p \in procs :
        LET c == LastCall(p) IN
        /\ Returned(p) /\ op[p].kind = "DoRequest" /\ Len(c) = 2
        /\ op[p].body = Payload
        /\ Fresh(start[p].token, start[p].now)
        /\ c[1].auth = start[p].token.access
        /\ c[1].status = 401 /\ c[2].status = 200
        /\ c[2].auth /= c[1].auth
        /\ res[p].err = "" /\ res[p].resp.status = 200

\* C5: when both the first attempt and the retry are answered 401, two
\* attempts and one exchange are made and the caller of DoRequest, of a verb
\* helper or of an existence check gets the second 401 as an error.
C5_Second401IsError ==
    \A p \in procs :
        LET c == LastCall(p) IN
        (/\ Returned(p) /\ op[p].kind /= "GetToken" /\ Len(c) >= 2
         /\ c[1].status = 401 /\ c[2].status = 401) =>
            /\ Len(c) = 2
            /\ c[2].ex = c[1].ex + 1
            /\ IF op[p].kind = "DoRequest"
               THEN res[p].resp.status = 401
               ELSE res[p].err /= ""

HelperKinds == {"DoGet", "DoPost", "DoPut", "DoDelete"}

\* the statuses the specification lets each verb accept
Expected(kind) ==
    CASE kind = "DoGet" -> {200}
      [] kind = "DoPost" -> {200, 201}
      [] kind = "DoPut" -> {200, 204}
      [] kind = "DoDelete" -> {200, 204, 404}

\* a call of DoRequest ended with a response: its last request was answered,
\* and not by a first 401 after which no new token could be had
Answered(call) ==
    /\ Len(call) > 0
    /\ Final(call).status /= 0
    /\ ~(Len(call) = 1 /\ call[1].status = 401)

Decodes(p) == op[p].kind = "DoGet" \/ (op[p].kind = "DoPost" /\ op[p].target)

\* C6 as stated: a helper succeeds exactly when the final status is one its
\* verb accepts, and returns an APIError with that status in every other case.
C6_SucceedsIffAccepted ==
    \A p \in procs :
        (Returned(p) /\ op[p].kind \in HelperKinds /\ Answered(LastCall(p))) =>
            LET s == Final(LastCall(p)).status IN
            /\ res[p].err = "" <=> s \in Expected(op[p].kind)
            /\ res[p].err /= "" => (res[p].err = "api" /\ res[p].apierr.StatusCode = s)

\* C6 (amended): a helper returns an APIError, carrying the final status,
\* exactly when that status is not one its verb accepts; with an accepted
\* status DoPut, DoDelete and DoPost without a target succeed, and DoGet and
\* DoPost with a target succeed exactly when the body decodes and return a
\* decoding error, not an APIError, when it does not.
C6_StatusPolicy ==
    \A p \in procs :
        (Returned(p) /\ op[p].kind \in HelperKinds /\ Answered(LastCall(p))) =>
            LET s == Final(LastCall(p)).status
                b == Final(LastCall(p)).rbody
            IN /\ res[p].err = "api" <=> s \notin Expected(op[p].kind)
               /\ res[p].err = "api" => res[p].apierr.StatusCode = s
               /\ s \in Expected(op[p].kind) =>
                     /\ res[p].err \in {"", "decode"}
                     /\ res[p].err = "" <=> (~Decodes(p) \/ b.kind = "object")

C6_Witness ==
    \E p \in procs :
        /\ Returned(p) /\ op[p].kind = "DoGet" /\ Answered(LastCall(p))
        /\ Final(LastCall(p)).status = 200
        /\ Final(LastCall(p)).rbody.kind = "text"
        /\ res[p].err = "decode"

\* the first string among the message, error and title fields of an object
FirstString(b, otherwise) ==
    LET field == <<b.message, b.error, b.title>>
        strings == {i \in 1..3 : field[i] \notin {Absent, NonString}}
    IN IF b.kind = "object" /\ strings /= {}
       THEN field[CHOOSE i \in strings : \A j \in strings : i <= j]
       ELSE otherwise

\* C7: the error HandleAPIError makes has the status of the response as its
\* StatusCode and the response body as its Body; its Message is the first
\* string among the message, error and title fields when the body is a JSON
\* object, and the HTTP status phrase when the body is not an object, is
\* empty, or has no string in any of the three fields.
C7_ErrorFields ==
    \A p \in procs :
        (Returned(p) /\ res[p].err = "api") =>
            LET a == Final(LastCall(p)) IN
            /\ res[p].apierr.StatusCode = a.status
            /\ res[p].apierr.Body = a.rbody
            /\ res[p].apierr.Message = FirstString(a.rbody, StatusPhrase(a.status))

C7_Witness ==
    \E p \in procs :
        /\ Returned(p) /\ res[p].err = "api"
        /\ Final(LastCall(p)).status = 500
        /\ Final(LastCall(p)).rbody =
              [kind |-> "object", message |-> NonString, error |-> "E", title |-> "T"]
        /\ res[p].apierr.Message = "E"

\* C8: when the existence check of Read or Delete ends with a status other
\* than 200 and 404, the operation reports an error, Read does not remove
\* the resource from state and Delete does not return success without
\* having sent the remote delete.
C8_NothingSwallowed ==
    \A p \in procs :
        (/\ Returned(p) /\ op[p].kind \in {"ViewExists", "Read", "Delete"}
         /\ Answered(ExistsCall(p))
         /\ Final(ExistsCall(p)).status \notin {200, 404}) =>
            /\ res[p].err /= ""
            /\ res[p].out \notin {"removed", "noop"}

----------------------------------------------------------------------------
(* The update of a view by the SDK resource: playerViewUpdate and the      *)
(* reconciliation of the view's applications and teams.  The remembered    *)
(* and the desired lists are lists of maps, as the SDK hands them over.    *)

MaxApps == 2
MaxTeams == 2

ViewId == "v1"
AppIds == <<"a1", "a2", "a3">>
AppNames == {"A", "B"}
TeamIds == <<"t1", "t2", "t3">>

\* uuid.New().String(), the k-th of a pass
Uuid(k) == <<"g1", "g2", "g3", "g4">>[k]

RECURSIVE Flatten(_)
Flatten(ss) == IF ss = <<>> THEN <<>> ELSE Head(ss) \o Flatten(Tail(ss))

Range(s) == {s[i] : i \in 1..Len(s)}

AppMap(id, name) == [app_id |-> id, name |-> name]

User(id, role) == [user_id |-> id, role |-> role]

Instance(id, name, order) == [id |-> id, name |-> name, display_order |-> order]

TeamMap(id, c) ==
    [team_id |-> id, name |-> c.name, role |-> c.role, permissions |-> c.permissions,
     user |-> c.user, app_instance |-> c.app_instance]

\* what a team block holds besides its identity: two contents that differ
\* in every part, and one with nothing in it
ContentOne ==
    [name |-> "T", role |-> "r1", permissions |-> <<"p1">>,
     user |-> <<User("u1", "r1"), User("u2", "r1")>>,
     app_instance |-> <<Instance("i1", "A", 0), Instance("i2", "B", 0)>>]

ContentTwo ==
    [name |-> "T", role |-> "r2", permissions |-> <<"p2", "p3">>,
     user |-> <<User("u2", "r2"), User("u3", "")>>,
     app_instance |-> <<Instance("i1", "A", 1), Instance("i3", "B", 0)>>]

ContentNone ==
    [name |-> "U", role |-> "", permissions |-> <<>>, user |-> <<>>,
     app_instance |-> <<>>]

TeamContents == {ContentOne, ContentTwo}

\* util.PairInList: some map of the list holds the value under the key
PairInList(list, key, value) == \E i \in 1..Len(list) : list[i][key] = value

\* structs.AppInfoFromMap
AppInfoFromMap(m) == [ID |-> m.app_id, Name |-> m.name, ViewID |-> ""]

\* AppInfo.ToMap
AppInfoToMap(a) == [app_id |-> a.ID, name |-> a.Name]

UserInfoFromMap(u) == [ID |-> u.user_id, Role |-> u.role]

AppInstanceFromMap(i) ==
    [Name |-> i.name, ID |-> i.id, DisplayOrder |-> i.display_order, Parent |-> ""]

\* structs.TeamInfoFromMap
TeamInfoFromMap(m) ==
    [ID |-> m.team_id, Name |-> m.name, Role |-> m.role, Permissions |-> m.permissions,
     Users |-> [i \in 1..Len(m.user) |-> UserInfoFromMap(m.user[i])],
     AppInstances |-> [i \in 1..Len(m.app_instance) |-> AppInstanceFromMap(m.app_instance[i])]]

ChangedAlways(oldMap, currMap) == TRUE

\* !reflect.DeepEqual(oldMap, currMap)
Changed(oldMap, currMap) == oldMap /= currMap

\* the first loop of updateApps and of updateTeams, deletions: the keys of
\* old that no entry of current has
KeysToDelete(old, current, key) ==
    LET gone == SelectSeq(old, LAMBDA o : ~PairInList(current, key, o[key]))
    IN [i \in 1..Len(gone) |-> gone[i][key]]

\* the same loop, updates: for each entry of old whose key current has, the
\* entries of current with that key that differ from it
MapsToUpdate(old, current, key) ==
    Flatten([i \in 1..Len(old) |->
                IF ~PairInList(current, key, old[i][key]) THEN <<>>
                ELSE SelectSeq(current, LAMBDA c : c[key] = old[i][key] /\ Changed(old[i], c))])

\* the entries of old that the update loop appended a counterpart for
OldOfUpdated(old, current, key) ==
    Flatten([i \in 1..Len(old) |->
                IF ~PairInList(current, key, old[i][key]) THEN <<>>
                ELSE LET hit == SelectSeq(current, LAMBDA c : c[key] = old[i][key] /\ Changed(old[i], c))
                     IN [j \in 1..Len(hit) |-> old[i]]])

\* the second loop, creations: the entries of current whose key old lacks
MapsToCreate(old, current, key) ==
    SelectSeq(current, LAMBDA c : ~PairInList(old, key, c[key]))

\* updateApps up to its remote calls
AppDiff(old, current) ==
    LET upd == MapsToUpdate(old, current, "app_id")
        new == MapsToCreate(old, current, "app_id")
    IN [toDelete |-> KeysToDelete(old, current, "app_id"),
        toUpdate |-> [i \in 1..Len(upd) |-> AppInfoFromMap(upd[i])],
        toCreate |-> [i \in 1..Len(new) |->
                        [AppInfoFromMap(new[i]) EXCEPT !.ID = Uuid(i), !.ViewID = ViewId]]]

\* updateTeams up to the permission lists
TeamDiff(old, current) ==
    LET upd == MapsToUpdate(old, current, "team_id")
        was == OldOfUpdated(old, current, "team_id")
        new == MapsToCreate(old, current, "team_id")
    IN [toDelete |-> KeysToDelete(old, current, "team_id"),
        toUpdate |-> [i \in 1..Len(upd) |-> TeamInfoFromMap(upd[i])],
        oldUpdated |-> [i \in 1..Len(was) |-> TeamInfoFromMap(was[i])],
        toCreate |-> [i \in 1..Len(new) |-> TeamInfoFromMap(new[i])]]

----------------------------------------------------------------------------
(* The permission lists of updateTeams.  toRemoveCurr and toAddCurr are    *)
(* each one slice, cut back to length 0 for every team and stored in the   *)
(* map as it stands: the stored slices share its backing array until an    *)
(* append outgrows the array and moves to a new one.                       *)

NilSlice == [heap |-> <<>>, arr |-> 0, len |-> 0]

Cap(st) == IF st.arr = 0 THEN 0 ELSE Len(st.heap[st.arr])

\* append(slice, x)
AppendTo(st, x) ==
    IF st.len < Cap(st)
    THEN [st EXCEPT !.heap[st.arr][st.len + 1] = x, !.len = st.len + 1]
    ELSE LET grown == IF Cap(st) = 0 THEN 1 ELSE 2 * Cap(st)
             kept == IF st.arr = 0 THEN <<>> ELSE SubSeq(st.heap[st.arr], 1, st.len)
             fresh == kept \o <<x>> \o SubSeq(<<"", "", "", "">>, 1, grown - st.len - 1)
         IN [heap |-> Append(st.heap, fresh), arr |-> Len(st.heap) + 1,
             len |-> st.len + 1]

RECURSIVE AppendAll(_, _)
AppendAll(st, xs) ==
    IF xs = <<>> THEN st
    ELSE CHOOSE all \in {AppendAll(next, Tail(xs)) : next \in {AppendTo(st, Head(xs))}} : TRUE

RECURSIVE Reused(_, _, _)
Reused(wanted, st, stored) ==
    IF wanted = <<>> THEN [heap |-> st.heap, stored |-> stored]
    ELSE CHOOSE all \in {Reused(Tail(wanted), filled,
                                Append(stored, [arr |-> filled.arr, len |-> filled.len])) :
                            filled \in {AppendAll([st EXCEPT !.len = 0], Head(wanted))}} : TRUE

\* what the map entries read once the loop over the updated teams is over
Stored(wanted) ==
    LET r == Reused(wanted, NilSlice, <<>>)
    IN [i \in 1..Len(wanted) |->
           IF r.stored[i].arr = 0 THEN <<>>
           ELSE SubSeq(r.heap[r.stored[i].arr], 1, r.stored[i].len)]

\* util.StrSliceContains
StrSliceContains(list, x) == \E i \in 1..Len(list) : list[i] = x

Missing(from, in) == SelectSeq(from, LAMBDA x : ~StrSliceContains(in, x))

\* permsToRemove and permsToAdd, listed in the order of oldUpdated
PermsToRemove(d) ==
    Stored([i \in 1..Len(d.oldUpdated) |->
               Missing(d.oldUpdated[i].Permissions, d.toUpdate[i].Permissions)])

PermsToAdd(d) ==
    Stored([i \in 1..Len(d.oldUpdated) |->
               Missing(d.toUpdate[i].Permissions, d.oldUpdated[i].Permissions)])

----------------------------------------------------------------------------
(* The remote calls, in the order the code makes them.                     *)

\* what a request carries besides the resource it addresses
NoData == [name |-> "", role |-> "", roleId |-> "", app |-> "", order |-> 0]

\* getRoleByName, getTeamRoleByName: the ID the server has for a role name,
\* and the name it shows for the ID
RoleID(name) == CASE name = "r1" -> "R1" [] name = "r2" -> "R2" [] OTHER -> ""

RoleNamed(id) == CASE id = "R1" -> "r1" [] id = "R2" -> "r2" [] OTHER -> ""

CallWith(level, kind, team, key, data) ==
    [level |-> level, kind |-> kind, team |-> team, key |-> key, data |-> data]

Call(level, kind, team, key) == CallWith(level, kind, team, key, NoData)

Orders(n) == {f \in [1..n -> 1..n] : \A i, j \in 1..n : f[i] = f[j] => i = j}

\* the ID the server gives the k-th team a pass creates
ServerTeamId(k) == <<"s1", "s2", "s3">>[k]

\* api.DeleteApps, api.UpdateApps, api.CreateApps
DeleteAppsCalls(ids) == [i \in 1..Len(ids) |-> Call("application", "delete", "", ids[i])]

UpdateAppsCalls(apps) ==
    [i \in 1..Len(apps) |->
        CallWith("application", "update", "", apps[i].ID, [NoData EXCEPT !.name = apps[i].Name])]

CreateAppsCalls(apps) ==
    [i \in 1..Len(apps) |->
        CallWith("application", "create", "", apps[i].ID, [NoData EXCEPT !.name = apps[i].Name])]

\* the remote calls of updateApps
UpdateAppsPlan(d) ==
    DeleteAppsCalls(d.toDelete) \o UpdateAppsCalls(d.toUpdate) \o CreateAppsCalls(d.toCreate)

\* api.UpdateTeamPermissions: the additions team by team, then the removals,
\* each map in the order the iteration happens to take
UpdateTeamPermissionsCalls(d, addOrder, removeOrder) ==
    LET add == PermsToAdd(d)
        remove == PermsToRemove(d)
        n == Len(d.oldUpdated)
    IN Flatten([k \in 1..n |->
                   [j \in 1..Len(add[addOrder[k]]) |->
                       Call("permission", "create", d.oldUpdated[addOrder[k]].ID,
                            add[addOrder[k]][j])]])
       \o
       Flatten([k \in 1..n |->
                   [j \in 1..Len(remove[removeOrder[k]]) |->
                       Call("permission", "delete", d.oldUpdated[removeOrder[k]].ID,
                            remove[removeOrder[k]][j])]])

\* api.SetUserRole: the membership is looked up, then the role, then set
SetUserRoleCallsUnlooked(team, user) ==
    <<Call("role", "lookup", team, user.Role),
      CallWith("user", "update", team, user.ID, [NoData EXCEPT !.roleId = RoleID(user.Role)])>>

SetUserRoleCalls(team, user) ==
    <<Call("membership", "lookup", team, user.ID),
      Call("role", "lookup", team, user.Role),
      CallWith("user", "update", team, user.ID, [NoData EXCEPT !.roleId = RoleID(user.Role)])>>

DeleteTeamsCalls(ids) == [i \in 1..Len(ids) |-> Call("team", "delete", ids[i], ids[i])]

\* api.UpdateTeams
UpdateTeamsCalls(teams) ==
    Flatten([i \in 1..Len(teams) |->
                <<Call("role", "lookup", teams[i].ID, teams[i].Role),
                  CallWith("team", "update", teams[i].ID, teams[i].ID,
                           [NoData EXCEPT !.name = teams[i].Name,
                                          !.roleId = RoleID(teams[i].Role)])>>])

\* updateTeams and createTeams: an instance gets the ID of the application of
\* its name as parent, the last one listed when several have the name
ResolveParent(inst, appStructs) ==
    LET named == SelectSeq(appStructs, LAMBDA a : a.Name = inst.Name)
    IN IF named = <<>> THEN inst ELSE [inst EXCEPT !.Parent = named[Len(named)].ID]

ResolveParents(teams, application) ==
    LET appStructs == [i \in 1..Len(application) |-> AppInfoFromMap(application[i])]
    IN [i \in 1..Len(teams) |->
           [teams[i] EXCEPT !.AppInstances =
               [j \in 1..Len(@) |-> ResolveParent(@[j], appStructs)]]]

\* api.CreateTeams: the team, then its users one by one, each with its role
\* when it has one, then its instances
CreateTeamsCalls(teams) ==
    Flatten([k \in 1..Len(teams) |->
        LET t == teams[k]
            id == ServerTeamId(k)
        IN (IF t.Role /= "" THEN <<Call("role", "lookup", id, t.Role)>> ELSE <<>>)
           \o <<CallWith("team", "create", id, t.Name,
                          [NoData EXCEPT !.name = t.Name, !.roleId = RoleID(t.Role)])>>
           \o Flatten([i \in 1..Len(t.Users) |->
                          <<Call("user", "create", id, t.Users[i].ID)>>
                          \o (IF t.Users[i].Role /= "" THEN SetUserRoleCalls(id, t.Users[i])
                              ELSE <<>>)])
           \o [i \in 1..Len(t.AppInstances) |->
                  CallWith("instance", "create", id, t.AppInstances[i].Parent,
                           [NoData EXCEPT !.app = t.AppInstances[i].Parent,
                                          !.order = t.AppInstances[i].DisplayOrder])]])

\* the teams as CreateTeams leaves them: under the IDs the server gave
Created(teams) == [k \in 1..Len(teams) |-> [teams[k] EXCEPT !.ID = ServerTeamId(k)]]

\* api.AddPermissionsToTeam
AddPermissionsToTeamCalls(teams) ==
    Flatten([k \in 1..Len(teams) |->
                [j \in 1..Len(teams[k].Permissions) |->
                    Call("permission", "create", teams[k].ID, teams[k].Permissions[j])]])

\* structs.UserHasID
UserHasIDNever(arr, id) == FALSE

UserHasID(arr, id) == \E i \in 1..Len(arr) : arr[i].ID = id

\* structs.InstanceHasID
InstanceHasID(arr, id) == \E i \in 1..Len(arr) : arr[i].ID = id

\* the entry of the list with the ID, the last one when several have it
Found(arr, id) ==
    LET same == SelectSeq(arr, LAMBDA x : x.ID = id) IN same[Len(same)]

\* updateUsers, one team: the roles that changed are set while the current
\* users are gone through, then the users collected in toAdd are added
TeamUsersCalls(oldTeam, currTeam) ==
    LET oldUsers == oldTeam.Users
        currUsers == currTeam.Users
        toAdd == SelectSeq(currUsers, LAMBDA u : ~UserHasID(oldUsers, u.ID))
    IN Flatten([i \in 1..Len(currUsers) |->
                   IF ~UserHasID(oldUsers, currUsers[i].ID) THEN <<>>
                   ELSE IF Found(oldUsers, currUsers[i].ID).Role /= currUsers[i].Role
                        THEN SetUserRoleCalls(oldTeam.ID, currUsers[i])
                        ELSE <<>>])
       \o [i \in 1..Len(toAdd) |-> Call("user", "create", currTeam.ID, toAdd[i].ID)]

\* removedUsers of one team
RemovedUsers(oldTeam, currTeam) ==
    IF Len(currTeam.Users) = 0 THEN oldTeam.Users
    ELSE SelectSeq(oldTeam.Users, LAMBDA u : ~UserHasID(currTeam.Users, u.ID))

\* updateUsers: team by team, and api.RemoveUsers at the very end, which
\* goes through its map in the order the iteration happens to take
UpdateUsersCalls(d, removeOrder) ==
    LET n == Len(d.oldUpdated)
    IN Flatten([i \in 1..n |-> TeamUsersCalls(d.oldUpdated[i], d.toUpdate[i])])
       \o
       Flatten([k \in 1..n |->
                   LET i == removeOrder[k]
                       gone == RemovedUsers(d.oldUpdated[i], d.toUpdate[i])
                   IN [j \in 1..Len(gone) |->
                          Call("user", "delete", d.toUpdate[i].ID, gone[j].ID)]])

\* updateInstances, one team: each current instance is added or updated as
\* the loop meets it
TeamInstancesCalls(oldTeam, currTeam, apps) ==
    LET oldInstances == oldTeam.AppInstances
        currInstances == currTeam.AppInstances
    IN Flatten([i \in 1..Len(currInstances) |->
          LET inst == currInstances[i] IN
          IF ~InstanceHasID(oldInstances, inst.ID)
          THEN LET named == SelectSeq(apps, LAMBDA a : a.name = inst.Name)
               IN [j \in 1..Len(named) |->
                      CallWith("instance", "create", oldTeam.ID, named[j].app_id,
                               [NoData EXCEPT !.app = named[j].app_id,
                                              !.order = inst.DisplayOrder])]
          ELSE LET old == Found(oldInstances, inst.ID)
               IN IF old.Name /= inst.Name \/ old.DisplayOrder /= inst.DisplayOrder
                  THEN <<CallWith("instance", "update", oldTeam.ID, inst.ID,
                                  [NoData EXCEPT !.app = inst.Parent,
                                                 !.order = inst.DisplayOrder])>>
                  ELSE <<>>])

\* the instances of one team that go into deleted
DeletedInstances(oldTeam, currTeam) ==
    IF Len(currTeam.AppInstances) = 0 THEN oldTeam.AppInstances
    ELSE SelectSeq(oldTeam.AppInstances,
                   LAMBDA x : ~InstanceHasID(currTeam.AppInstances, x.ID))

\* updateInstances: team by team, and api.DeleteAppInstances at the very end
UpdateInstancesCalls(d, apps) ==
    LET n == Len(d.oldUpdated)
    IN Flatten([i \in 1..n |-> TeamInstancesCalls(d.oldUpdated[i], d.toUpdate[i], apps)])
       \o
       Flatten([i \in 1..n |->
                   LET gone == DeletedInstances(d.oldUpdated[i], d.toUpdate[i])
                   IN [j \in 1..Len(gone) |->
                          Call("instance", "delete", d.oldUpdated[i].ID, gone[j].ID)]])

\* the remote calls of updateTeams between the permissions of the updated
\* teams and their users
ApplyTeamsCalls(d, application) ==
    LET toCreate == ResolveParents(d.toCreate, application)
    IN DeleteTeamsCalls(d.toDelete)
       \o UpdateTeamsCalls(d.toUpdate)
       \o CreateTeamsCalls(toCreate)
       \o AddPermissionsToTeamCalls(Created(toCreate))

----------------------------------------------------------------------------
(* playerViewUpdate, step by step.  eng holds the resource data (the       *)
(* remembered and the desired lists, and what d.Get returns for them now), *)
(* which of updateApps and updateTeams ran and the lists their diffs       *)
(* produced, and the remote calls made so far.  Any remote call may fail,  *)
(* and the pass ends with it.                                              *)

NoDiff == [toDelete |-> <<>>, toUpdate |-> <<>>, oldUpdated |-> <<>>, toCreate |-> <<>>]

EngStart(oldApps, newApps, oldTeams, newTeams, createAdmin, viewChanged) ==
    [phase |-> "view", id |-> ViewId, oldApps |-> oldApps, newApps |-> newApps,
     oldTeams |-> oldTeams, newTeams |-> newTeams, createAdmin |-> createAdmin,
     viewChanged |-> viewChanged,
     application |-> newApps, team |-> newTeams,
     apps |-> NoDiff, teams |-> NoDiff, ran |-> {}, calls |-> <<>>, failed |-> FALSE]

\* the IDs the server gives what a pass creates
ServerAppId(k) == <<"b1", "b2", "b3">>[k]

ServerInstanceId(k) == <<"n1", "n2", "n3">>[k]

\* TeamInfo.ToMap
TeamInfoToMap(t) ==
    [team_id |-> t.ID, name |-> t.Name, role |-> t.Role, permissions |-> t.Permissions,
     user |-> [i \in 1..Len(t.Users) |-> User(t.Users[i].ID, t.Users[i].Role)],
     app_instance |-> [i \in 1..Len(t.AppInstances) |->
                          Instance(t.AppInstances[i].ID, t.AppInstances[i].Name,
                                   t.AppInstances[i].DisplayOrder)]]

----------------------------------------------------------------------------
(* The Player API as the resource sees it: the applications and the teams  *)
(* of the view, each list in the order the server keeps it.  A POST adds   *)
(* an entry under an ID of the server's, a PUT replaces the fields it      *)
(* carries, a DELETE removes the entry, a GET changes nothing.             *)

ServerApp(id, name) == [id |-> id, name |-> name]

ServerUser(id, role) == [id |-> id, role |-> role]

ServerInstance(id, app, order) == [id |-> id, app |-> app, order |-> order]

ServerTeam(id, name, role, permissions, users, instances) ==
    [id |-> id, name |-> name, role |-> role, permissions |-> permissions,
     users |-> users, instances |-> instances]

\* the ID of the application of the view that has the name, "" when none has
AppNamed(apps, name) ==
    LET named == SelectSeq(apps, LAMBDA a : a.name = name)
    IN IF named = <<>> THEN "" ELSE named[1].id

\* the name of the application with the ID, "" when there is none
NameOfApp(apps, id) ==
    LET same == SelectSeq(apps, LAMBDA a : a.id = id)
    IN IF same = <<>> THEN "" ELSE same[1].name

\* the team the server makes of its own accord when the view is created
\* with create_admin_team
AdminTeam == ServerTeam("s0", "Admin", "", <<>>, <<>>, <<>>)

\* the server a remembered state describes
ServerOf(application, team, createAdmin) ==
    LET apps == [i \in 1..Len(application) |->
                    ServerApp(application[i].app_id, application[i].name)]
    IN [apps |-> apps,
        teams |-> (IF createAdmin THEN <<AdminTeam>> ELSE <<>>) \o
                  [i \in 1..Len(team) |->
                     ServerTeam(team[i].team_id, team[i].name, team[i].role,
                                team[i].permissions,
                                [j \in 1..Len(team[i].user) |->
                                    ServerUser(team[i].user[j].user_id, team[i].user[j].role)],
                                [j \in 1..Len(team[i].app_instance) |->
                                    ServerInstance(team[i].app_instance[j].id,
                                                   AppNamed(apps, team[i].app_instance[j].name),
                                                   team[i].app_instance[j].display_order)])]]

\* the first of the server's IDs that no entry of the list has
FreshOf(ServerId(_), list) ==
    ServerId(CHOOSE k \in 1..(Len(list) + 1) :
                /\ \A i \in 1..Len(list) : list[i].id /= ServerId(k)
                /\ \A j \in 1..(k - 1) : \E i \in 1..Len(list) : list[i].id = ServerId(j))

Without(list, id) == SelectSeq(list, LAMBDA x : x.id /= id)

Replaced(list, id, Change(_)) ==
    [i \in 1..Len(list) |-> IF list[i].id = id THEN Change(list[i]) ELSE list[i]]

\* what one accepted request does to the applications
AppEffect(apps, c) ==
    CASE c.kind = "delete" -> Without(apps, c.key)
      [] c.kind = "update" ->
            Replaced(apps, c.key, LAMBDA a : [a EXCEPT !.name = c.data.name])
      [] c.kind = "create" ->
            Append(apps, ServerApp(FreshOf(ServerAppId, apps), c.data.name))
      [] OTHER -> apps

\* what one accepted request about a team or a part of it does to the team
TeamEffect(t, c) ==
    CASE c.level = "team" /\ c.kind = "update" ->
            [t EXCEPT !.name = c.data.name, !.role = RoleNamed(c.data.roleId)]
      [] c.level = "permission" /\ c.kind = "create" ->
            IF \E i \in 1..Len(t.permissions) : t.permissions[i] = c.key THEN t
            ELSE [t EXCEPT !.permissions = Append(t.permissions, c.key)]
      [] c.level = "permission" /\ c.kind = "delete" ->
            [t EXCEPT !.permissions = SelectSeq(t.permissions, LAMBDA x : x /= c.key)]
      [] c.level = "user" /\ c.kind = "create" ->
            IF \E i \in 1..Len(t.users) : t.users[i].id = c.key THEN t
            ELSE [t EXCEPT !.users = Append(t.users, ServerUser(c.key, ""))]
      [] c.level = "user" /\ c.kind = "update" ->
            [t EXCEPT !.users = Replaced(t.users, c.key,
                                         LAMBDA u : [u EXCEPT !.role = RoleNamed(c.data.roleId)])]
      [] c.level = "user" /\ c.kind = "delete" ->
            [t EXCEPT !.users = Without(t.users, c.key)]
      [] c.level = "instance" /\ c.kind = "create" ->
            [t EXCEPT !.instances =
                Append(t.instances,
                       ServerInstance(FreshOf(ServerInstanceId, t.instances),
                                      c.data.app, c.data.order))]
      [] c.level = "instance" /\ c.kind = "update" ->
            [t EXCEPT !.instances =
                Replaced(t.instances, c.key,
                         LAMBDA x : [x EXCEPT !.app = c.data.app, !.order = c.data.order])]
      [] c.level = "instance" /\ c.kind = "delete" ->
            [t EXCEPT !.instances = Without(t.instances, c.key)]
      [] OTHER -> t

\* what one accepted request does to the server
Effect(s, c) ==
    CASE c.kind = "lookup" -> s
      [] c.level = "application" -> [s EXCEPT !.apps = AppEffect(s.apps, c)]
      [] c.level = "team" /\ c.kind = "delete" -> [s EXCEPT !.teams = Without(s.teams, c.key)]
      [] c.level = "team" /\ c.kind = "create" ->
            [s EXCEPT !.teams = Append(s.teams, ServerTeam(c.team, c.data.name, RoleNamed(c.data.roleId),
                                                           <<>>, <<>>, <<>>))]
      [] c.level \in {"team", "permission", "user", "instance"} ->
            [s EXCEPT !.teams = Replaced(s.teams, c.team, LAMBDA t : TeamEffect(t, c))]
      [] OTHER -> s

\* the server after a list of accepted requests, one after the other
RECURSIVE ServerAfter(_, _)
ServerAfter(s, calls) ==
    IF calls = <<>> THEN s
    ELSE CHOOSE after \in {ServerAfter(next, Tail(calls)) : next \in {Effect(s, Head(calls))}} :
            TRUE

----------------------------------------------------------------------------
(* playerViewRead: what api.ReadView returns, the sorting and the maps set *)
(* as the new local state.                                                 *)

\* the strings that are sorted, in the order Go's < puts them
GoOrder == <<"", "A", "Admin", "B", "S", "T", "U", "u1", "u2", "u3">>

StringLess(a, b) ==
    LET at(s) == CHOOSE k \in 1..Len(GoOrder) : GoOrder[k] = s
    IN at(a) < at(b)

\* one element put into a sorted slice the way insertionSort does: it moves
\* left for as long as its key is less than its neighbour's
Inserted(sorted, x) ==
    LET stay == {k \in 1..Len(sorted) : ~StringLess(x.key, sorted[k].key)}
        at == IF stay = {} THEN 0 ELSE CHOOSE k \in stay : \A j \in stay : j <= k
    IN SubSeq(sorted, 1, at) \o <<x>> \o SubSeq(sorted, at + 1, Len(sorted))

RECURSIVE InsertionSort(_, _)
InsertionSort(sorted, rest) ==
    IF rest = <<>> THEN sorted
    ELSE CHOOSE all \in {InsertionSort(next, Tail(rest)) :
                            next \in {Inserted(sorted, Head(rest))}} : TRUE

\* sort.Slice with a less function that compares one string field; the
\* slices here have at most twelve elements, which sort.Slice sorts by
\* insertion
SortSlice(slice, Key(_)) ==
    LET keyed == InsertionSort(<<>>, [i \in 1..Len(slice) |->
                                        [key |-> Key(slice[i]), item |-> slice[i]]])
    IN [i \in 1..Len(keyed) |-> keyed[i].item]

\* a list as the server returns it under one of its orders
Ordered(list, order) == [k \in 1..Len(list) |-> list[order[k]]]

AsStored(n) == [k \in 1..n |-> k]

Reversed(n) == [k \in 1..n |-> n + 1 - k]

\* readApps
ReadApps(s, order) ==
    LET apps == Ordered(s.apps, order)
    IN [i \in 1..Len(apps) |-> [ID |-> apps[i].id, Name |-> apps[i].name, ViewID |-> ViewId]]

\* readTeams with getUsersInTeam and getTeamAppInstances; the inner lists
\* come as the server keeps them or the other way round
ReadTeams(s, order, inner(_)) ==
    LET teams == Ordered(s.teams, order)
    IN [i \in 1..Len(teams) |->
           LET users == Ordered(teams[i].users, inner(Len(teams[i].users)))
               instances == Ordered(teams[i].instances, inner(Len(teams[i].instances)))
           IN [ID |-> teams[i].id, Name |-> teams[i].name, Role |-> teams[i].role,
               Permissions |-> teams[i].permissions,
               Users |-> [j \in 1..Len(users) |-> [ID |-> users[j].id, Role |-> users[j].role]],
               AppInstances |->
                   [j \in 1..Len(instances) |->
                       [Name |-> NameOfApp(s.apps, instances[j].app), ID |-> instances[j].id,
                        DisplayOrder |-> instances[j].order, Parent |-> instances[j].app]]]]

\* the teams sorted by name, and in each the users by ID and the instances
\* by name
SortedTeams(teams) ==
    LET byName == SortSlice(teams, LAMBDA x : x.Name)
    IN [i \in 1..Len(byName) |->
           [byName[i] EXCEPT
               !.Users = SortSlice(byName[i].Users, LAMBDA x : x.ID),
               !.AppInstances = SortSlice(byName[i].AppInstances, LAMBDA x : x.Name)]]

SortedApps(apps) == SortSlice(apps, LAMBDA x : x.Name)

\* the teams that go into the local state
ReportedAll(teams, createAdmin) == teams

Reported(teams, createAdmin) ==
    SelectSeq(teams, LAMBDA t : ~(t.Name = "Admin" /\ createAdmin))

\* the local state playerViewRead sets from what the server returned
LocalState(apps, teams, createAdmin) ==
    LET sortedApps == SortedApps(apps)
        reported == Reported(SortedTeams(teams), createAdmin)
    IN [application |-> [i \in 1..Len(sortedApps) |-> AppInfoToMap(sortedApps[i])],
        team |-> [i \in 1..Len(reported) |-> TeamInfoToMap(reported[i])]]

\* the requests of playerViewRead: the view, its applications, its teams,
\* then the users of each team with the membership and the role of each,
\* then the instances of each team
ReadCalls(s, teams) ==
    <<Call("view", "lookup", "", ViewId), Call("view", "lookup", "", ViewId),
      Call("application", "lookup", "", ViewId), Call("team", "lookup", "", ViewId)>>
    \o Flatten([i \in 1..Len(teams) |->
                   <<Call("user", "lookup", teams[i].ID, teams[i].ID)>>
                   \o Flatten([j \in 1..Len(teams[i].Users) |->
                                  <<Call("membership", "lookup", teams[i].ID, teams[i].Users[j].ID),
                                    Call("role", "lookup", teams[i].ID, teams[i].Users[j].ID)>>])])
    \o [i \in 1..Len(teams) |-> Call("instance", "lookup", teams[i].ID, teams[i].ID)]

IssueContinuing(plan, started, completed) ==
    \E calls \in {plan} :
       \/ eng' = [completed EXCEPT !.calls = eng.calls \o calls]
       \/ \E n \in 1..Len(calls) :
             eng' = [completed EXCEPT !.calls = eng.calls \o calls, !.failed = TRUE]

\* a step makes its calls one after the other: all succeed, or one fails and
\* playerViewUpdate returns the error
Issue(plan, started, completed) ==
    \E calls \in {plan} :
       \/ eng' = [completed EXCEPT !.calls = eng.calls \o calls]
       \/ \E n \in 1..Len(calls) :
             eng' = [started EXCEPT !.calls = eng.calls \o SubSeq(calls, 1, n),
                                    !.failed = TRUE, !.phase = "failed"]

\* the requests of the pass that the server accepted
Accepted ==
    IF eng.failed THEN SubSeq(eng.calls, 1, Len(eng.calls) - 1) ELSE eng.calls

\* the server as the accepted requests of the pass have left it
Server ==
    ServerAfter(ServerOf(eng.oldApps, eng.oldTeams, eng.createAdmin), Accepted)

\* d.HasChange(key): the new value of the key differs from the old one
HasChangeAlways(old, new) == TRUE

HasChange(old, new) == old /= new

\* playerViewUpdate: api.UpdateView
UpdateViewStep ==
    /\ eng.phase = "view"
    /\ LET started == [eng EXCEPT !.ran = @ \cup {"playerViewUpdate"}]
       IN Issue(<<Call("view", "update", "", ViewId)>>, started,
                [started EXCEPT !.phase = "apps"])
    /\ UNCHANGED cvars

\* viewResource.Update: the view's own fields are sent when the plan's name,
\* description or status differs from the state's, and the plan is saved as
\* the state
ResourceUpdate ==
    /\ eng.phase = "view"
    /\ LET started == [eng EXCEPT !.ran = @ \cup {"viewResource.Update"}]
       IN \E changed \in {eng.viewChanged} :
             Issue(IF changed THEN <<Call("view", "update", "", ViewId)>> ELSE <<>>,
                   started,
                   [started EXCEPT !.phase = "done", !.application = eng.newApps,
                                   !.team = eng.newTeams])
    /\ UNCHANGED cvars

\* d.HasChange("application") and updateApps
UpdateAppsStep ==
    /\ eng.phase = "apps"
    /\ HasChange(eng.oldApps, eng.newApps)
    /\ LET d == AppDiff(eng.oldApps, eng.newApps) @@ NoDiff
           started == [eng EXCEPT !.apps = d, !.ran = @ \cup {"updateApps"}]
           created == [k \in 1..Len(d.toCreate) |-> [d.toCreate[k] EXCEPT !.ID = ServerAppId(k)]]
           local == [i \in 1..Len(d.toUpdate) |-> AppInfoToMap(d.toUpdate[i])]
                    \o [i \in 1..Len(created) |-> AppInfoToMap(created[i])]
       IN Issue(UpdateAppsPlan(d), started,
                [started EXCEPT !.phase = "teams", !.application = local])
    /\ UNCHANGED cvars

NoAppChange ==
    /\ eng.phase = "apps"
    /\ ~HasChange(eng.oldApps, eng.newApps)
    /\ eng' = [eng EXCEPT !.phase = "teams"]
    /\ UNCHANGED cvars

\* d.HasChange("team") and updateTeams, as far as api.UpdateTeamPermissions
UpdateTeamPermissionsStep ==
    /\ eng.phase = "teams"
    /\ HasChange(eng.oldTeams, eng.newTeams)
    /\ LET d == TeamDiff(eng.oldTeams, eng.newTeams)
           n == Len(d.oldUpdated)
           started == [eng EXCEPT !.teams = d, !.ran = @ \cup {"updateTeams"}]
       IN \E addOrder \in Orders(n), removeOrder \in Orders(n) :
             Issue(UpdateTeamPermissionsCalls(d, addOrder, removeOrder), started,
                   [started EXCEPT !.phase = "apply"])
    /\ UNCHANGED cvars

\* updateTeams from api.DeleteTeams to api.AddPermissionsToTeam
ApplyTeamsStep ==
    /\ eng.phase = "apply"
    /\ Issue(ApplyTeamsCalls(eng.teams, eng.application), eng,
             [eng EXCEPT !.phase = "users"])
    /\ UNCHANGED cvars

\* updateUsers
UpdateUsersStep ==
    /\ eng.phase = "users"
    /\ \E removeOrder \in Orders(Len(eng.teams.oldUpdated)) :
          Issue(UpdateUsersCalls(eng.teams, removeOrder), eng,
                [eng EXCEPT !.phase = "instances"])
    /\ UNCHANGED cvars

\* updateInstances, and the teams set as the new local state
UpdateInstancesStep ==
    /\ eng.phase = "instances"
    /\ LET d == eng.teams
           resolved == ResolveParents(d.toCreate, eng.application)
           created == [k \in 1..Len(resolved) |->
                          [resolved[k] EXCEPT
                              !.ID = ServerTeamId(k),
                              !.AppInstances = [j \in 1..Len(@) |->
                                                   [@[j] EXCEPT !.ID = ServerInstanceId(j)]]]]
           local == [i \in 1..Len(d.toUpdate) |-> TeamInfoToMap(d.toUpdate[i])]
                    \o [i \in 1..Len(created) |-> TeamInfoToMap(created[i])]
       IN Issue(UpdateInstancesCalls(d, eng.application), eng,
                [eng EXCEPT !.phase = "read", !.team = local])
    /\ UNCHANGED cvars

NoTeamChange ==
    /\ eng.phase = "teams"
    /\ ~HasChange(eng.oldTeams, eng.newTeams)
    /\ eng' = [eng EXCEPT !.phase = "read"]
    /\ UNCHANGED cvars

\* playerViewRead of a server that returns its lists under the given orders
PlayerViewRead(from, s, appOrder, teamOrder, inner(_)) ==
    LET apps == ReadApps(s, appOrder)
        teams == ReadTeams(s, teamOrder, inner)
        local == LocalState(apps, teams, eng.createAdmin)
        started == [from EXCEPT !.ran = @ \cup {"playerViewRead"}]
    IN Issue(ReadCalls(s, teams), started,
             [started EXCEPT !.phase = "done", !.application = local.application,
                             !.team = local.team])

\* the attributes of the view are set and playerViewRead ends the update;
\* the server returns each list in the order it keeps it
ReadBack ==
    /\ eng.phase = "read"
    /\ \E s \in {Server} :
          PlayerViewRead(eng, s, AsStored(Len(s.apps)), AsStored(Len(s.teams)), AsStored)
    /\ UNCHANGED cvars

----------------------------------------------------------------------------
(* The update of one view, for remembered and desired lists of bounded     *)
(* length.  Identifiers are opaque, so a remembered list is taken to hold  *)
(* the first identifiers in order; a desired list holds any.  Either the   *)
(* applications range over all lists and the teams over a few, or the      *)
(* teams over all and the applications stay as they are, or both change    *)
(* in one of a few ways.                                                   *)

Lists(S, n) == UNION {[1..k -> S] : k \in 0..n}

UniqueKeys(l, key) == \A i, j \in 1..Len(l) : l[i][key] = l[j][key] => i = j

AppMaps == {AppMap(id, name) : id \in Range(AppIds), name \in AppNames}

TeamMaps == {TeamMap(id, c) : id \in Range(TeamIds), c \in TeamContents}

AppChanges ==
    {<<old, new>> : old \in {l \in Lists(AppMaps, MaxApps) :
                                \A i \in 1..Len(l) : l[i].app_id = AppIds[i]},
                    new \in {l \in Lists(AppMaps, MaxApps) : UniqueKeys(l, "app_id")}}

TeamChanges ==
    {<<old, new>> : old \in {l \in Lists(TeamMaps, MaxTeams) :
                                \A i \in 1..Len(l) : l[i].team_id = TeamIds[i]},
                    new \in {l \in Lists(TeamMaps, MaxTeams) : UniqueKeys(l, "team_id")}}

TwoApps == <<AppMap("a1", "A"), AppMap("a2", "B")>>

FewAppChanges == {<<TwoApps, TwoApps>>, <<TwoApps, Append(TwoApps, AppMap("a3", "B"))>>}

FewTeamChanges ==
    {<< <<>>, <<>> >>,
     << <<TeamMap("t1", ContentOne)>>, <<TeamMap("t1", ContentOne)>> >>,
     << <<TeamMap("t1", ContentOne)>>, <<TeamMap("t1", ContentTwo)>> >>,
     << <<TeamMap("t1", ContentOne)>>, <<TeamMap("t1", ContentNone)>> >>,
     << <<TeamMap("t1", ContentNone)>>, <<TeamMap("t2", ContentOne)>> >>}

Changes ==
    (AppChanges \X {<< <<>>, <<>> >>,
                    << <<TeamMap("t1", ContentOne)>>, <<TeamMap("t1", ContentTwo)>> >>})
    \cup ({<<TwoApps, TwoApps>>} \X TeamChanges)
    \cup (FewAppChanges \X FewTeamChanges)

InitUpdate ==
    /\ ClientInit({1})
    /\ \E c \in Changes, createAdmin \in BOOLEAN, viewChanged \in BOOLEAN :
          /\ (createAdmin \/ ~viewChanged) => c \in FewAppChanges \X FewTeamChanges
          /\ eng = EngStart(c[1][1], c[1][2], c[2][1], c[2][2], createAdmin, viewChanged)

NextUpdate ==
    \/ UpdateViewStep
    \/ ResourceUpdate
    \/ UpdateAppsStep
    \/ NoAppChange
    \/ UpdateTeamPermissionsStep
    \/ ApplyTeamsStep
    \/ UpdateUsersStep
    \/ UpdateInstancesStep
    \/ NoTeamChange
    \/ ReadBack

SpecUpdate == InitUpdate /\ [][NextUpdate]_vars

----------------------------------------------------------------------------
(* Properties of the update *)

Keys(list, key) == {list[i][key] : i \in 1..Len(list)}

IDs(structs) == {structs[i].ID : i \in 1..Len(structs)}

NoRepeat(s) == \A i, j \in 1..Len(s) : s[i] = s[j] => i = j

\* the entries of current that have a differing entry of old under their key
Differing(old, current, key) ==
    {c \in Range(current) : \E o \in Range(old) : o[key] = c[key] /\ o /= c}

\* the entries of current whose key old lacks, in the order of current
Added(old, current, key) ==
    SelectSeq(current, LAMBDA c : \A i \in 1..Len(old) : old[i][key] /= c[key])

\* what C9 says of toDelete, of toUpdate, of the unchanged entries and of
\* disjointness
DiffPartition(old, current, key, d, FromMap(_)) ==
    /\ Range(d.toDelete) = Keys(old, key) \ Keys(current, key)
    /\ NoRepeat(d.toDelete)
    /\ Range(d.toUpdate) = {FromMap(c) : c \in Differing(old, current, key)}
    /\ NoRepeat(d.toUpdate)
    /\ \A e \in Range(old) \cap Range(current) :
          e[key] \notin Range(d.toDelete) \cup IDs(d.toUpdate) \cup IDs(d.toCreate)
    /\ Range(d.toDelete) \cap IDs(d.toUpdate) = {}
    /\ Range(d.toDelete) \cap IDs(d.toCreate) = {}
    /\ IDs(d.toUpdate) \cap IDs(d.toCreate) = {}

\* toCreate holds the entries of current whose key old lacks, under their keys
CreatesUnderTheirKeys(old, current, key, d) ==
    /\ IDs(d.toCreate) = Keys(current, key) \ Keys(old, key)
    /\ NoRepeat(d.toCreate)

AppsDiffed ==
    /\ "updateApps" \in eng.ran
    /\ UniqueKeys(eng.oldApps, "app_id") /\ UniqueKeys(eng.newApps, "app_id")

TeamsDiffed ==
    /\ "updateTeams" \in eng.ran
    /\ UniqueKeys(eng.oldTeams, "team_id") /\ UniqueKeys(eng.newTeams, "team_id")

Rank(kind) == CASE kind = "delete" -> 1 [] kind = "update" -> 2 [] kind = "create" -> 3

\* C10: in one update pass, among the remote calls for applications, for
\* teams, for the users of one team and for the app-instances of one team,
\* no update or create call comes before a delete call and no create call
\* before an update call.
C10_DeleteUpdateCreate ==
    \A i, j \in 1..Len(eng.calls) :
        LET a == eng.calls[i]
            b == eng.calls[j]
        IN (/\ i < j
            /\ a.level = b.level
            /\ a.level \in {"application", "team", "user", "instance"}
            /\ a.level \in {"user", "instance"} => a.team = b.team
            /\ a.kind /= "lookup" /\ b.kind /= "lookup")
           => Rank(a.kind) <= Rank(b.kind)

\* the calls for applications and the calls for teams do come in that order
LevelsInOrder(levels) ==
    \A i, j \in 1..Len(eng.calls) :
        (/\ i < j
         /\ eng.calls[i].level = eng.calls[j].level
         /\ eng.calls[i].level \in levels
         /\ eng.calls[i].kind /= "lookup" /\ eng.calls[j].kind /= "lookup")
        => Rank(eng.calls[i].kind) <= Rank(eng.calls[j].kind)

TopLevelsInOrder == LevelsInOrder({"application", "team"})

----------------------------------------------------------------------------
(* Convergence of the update *)

\* the content of a list whatever its order: how often each entry occurs
BagOf(seq) == [x \in Range(seq) |-> Cardinality({i \in 1..Len(seq) : seq[i] = x})]

\* what a list of team maps says of the teams, IDs of teams and of
\* instances aside
DescribedTeam(t) ==
    [name |-> t.name, role |-> t.role, permissions |-> Range(t.permissions),
     users |-> {[id |-> t.user[j].user_id, role |-> t.user[j].role] : j \in 1..Len(t.user)},
     instances |-> BagOf([j \in 1..Len(t.app_instance) |->
                            [name |-> t.app_instance[j].name,
                             order |-> t.app_instance[j].display_order]])]

DescribedApps(application) == BagOf([i \in 1..Len(application) |-> application[i].name])

DescribedTeams(team) == BagOf([i \in 1..Len(team) |-> DescribedTeam(team[i])])

\* the same of the server, the team of the server's own making aside
RemoteApps(s) == BagOf([i \in 1..Len(s.apps) |-> s.apps[i].name])

RemoteTeam(s, t) ==
    [name |-> t.name, role |-> t.role, permissions |-> Range(t.permissions),
     users |-> {[id |-> t.users[j].id, role |-> t.users[j].role] : j \in 1..Len(t.users)},
     instances |-> BagOf([j \in 1..Len(t.instances) |->
                            [name |-> NameOfApp(s.apps, t.instances[j].app),
                             order |-> t.instances[j].order]])]

RemoteTeams(s, createAdmin) ==
    LET own == SelectSeq(s.teams, LAMBDA t : ~(createAdmin /\ t.name = "Admin"))
    IN BagOf([i \in 1..Len(own) |-> RemoteTeam(s, own[i])])

\* every instance of the teams is named after exactly one application
InstancesNamed(application, team) ==
    \A i \in 1..Len(team) : \A j \in 1..Len(team[i].app_instance) :
        Cardinality({k \in 1..Len(application) :
                        application[k].name = team[i].app_instance[j].name}) = 1

\* an update that had something to change and returned without error
Updated ==
    /\ eng.phase = "done" /\ ~eng.failed
    /\ eng.oldApps /= eng.newApps \/ eng.oldTeams /= eng.newTeams
    /\ UniqueKeys(eng.oldApps, "app_id") /\ UniqueKeys(eng.newApps, "app_id")
    /\ UniqueKeys(eng.oldTeams, "team_id") /\ UniqueKeys(eng.newTeams, "team_id")
    /\ InstancesNamed(eng.oldApps, eng.oldTeams)
    /\ InstancesNamed(eng.newApps, eng.newTeams)

\* C11: when an update whose desired applications or teams differ from the
\* remembered ones returns without error, the server holds the desired
\* applications and teams and the state written back describes what the
\* server holds.
C11_Converges ==
    Updated =>
        \E s \in {Server} :
            /\ RemoteApps(s) = DescribedApps(eng.newApps)
            /\ RemoteTeams(s, eng.createAdmin) = DescribedTeams(eng.newTeams)
            /\ RemoteApps(s) = DescribedApps(eng.application)
            /\ RemoteTeams(s, eng.createAdmin) = DescribedTeams(eng.team)

----------------------------------------------------------------------------
(* Idempotence of the update *)

\* the desired state is the remembered one
Identical ==
    /\ eng.phase /= "idle"
    /\ eng.oldApps = eng.newApps /\ eng.oldTeams = eng.newTeams /\ ~eng.viewChanged

IsViewUpdate(c) == c.level = "view" /\ c.kind = "update"

\* C12 as stated: an update whose desired state is the remembered one makes
\* no remote call at all.
C12_NoRemoteCall == Identical => eng.calls = <<>>

\* C12: an update whose desired state is the remembered one enters neither
\* updateApps nor updateTeams and creates, updates or deletes no application,
\* team, permission, user or instance; viewResource.Update makes no remote
\* call, and playerViewUpdate sends the view's own update and after it
\* nothing but the lookups of its reading back.
C12_NothingReconciled ==
    Identical =>
        /\ eng.ran \cap {"updateApps", "updateTeams"} = {}
        /\ "viewResource.Update" \in eng.ran => eng.calls = <<>>
        /\ \A i \in 1..Len(eng.calls) :
              IF i = 1 THEN IsViewUpdate(eng.calls[i]) ELSE eng.calls[i].kind = "lookup"

C12_Witness ==
    /\ Identical /\ eng.phase = "done" /\ ~eng.failed
    /\ "playerViewUpdate" \in eng.ran
    /\ eng.oldTeams /= <<>>
    /\ Len(eng.calls) > 1

----------------------------------------------------------------------------
(* The creation of a view and the reading of it, by the SDK resource       *)
(* (playerViewCreate, playerViewRead) and by the framework resource        *)
(* (viewResource.Create, viewResource.Read).                                *)

\* a team block as it is declared: the IDs of its instances are computed
Declared(c) ==
    [c EXCEPT !.app_instance = [j \in 1..Len(@) |-> [@[j] EXCEPT !.id = ""]]]

\* a team declared with its users and its instances out of order
ContentLate ==
    [name |-> "S", role |-> "r2", permissions |-> <<"p2">>,
     user |-> <<User("u3", ""), User("u2", "r2")>>,
     app_instance |-> <<Instance("", "B", 0), Instance("", "A", 1)>>]

\* a team declared under the name of the server's own team
ContentAdmin == [ContentNone EXCEPT !.name = "Admin"]

DeclaredContents == {Declared(ContentOne), ContentLate, ContentAdmin}

\* the application and the team blocks of a configuration: names are not
\* repeated, and a configuration with instances declares their applications
DeclaredApps ==
    {[i \in 1..Len(l) |-> AppMap("", l[i])] :
        l \in {x \in Lists(AppNames, MaxApps) : \A i, j \in 1..Len(x) : x[i] = x[j] => i = j}}

DeclaredTeams ==
    {[i \in 1..Len(l) |-> TeamMap("", l[i])] :
        l \in {x \in Lists(DeclaredContents, MaxTeams) :
                  \A i, j \in 1..Len(x) : x[i].name = x[j].name => i = j}}

Configurations ==
    {c \in DeclaredApps \X DeclaredTeams :
        (\E i \in 1..Len(c[2]) : c[2][i].app_instance /= <<>>) =>
            \A name \in AppNames : \E k \in 1..Len(c[1]) : c[1][k].name = name}

\* the orders a server may return a list of n in: the one it keeps and the
\* reverse of it
ServerOrders(n) == {AsStored(n), Reversed(n)}

\* api.CreateApps of the framework resource
NewCreateAppsCalls(apps) ==
    [i \in 1..Len(apps) |->
        CallWith("application", "create", "", apps[i].Name, [NoData EXCEPT !.name = apps[i].Name])]

\* api.CreateTeams of the framework resource: the team with its name and
\* the name of its role, then each user and the role of it, then for each
\* instance the application of its name and the instance
NewCreateTeamsCalls(teams, apps) ==
    Flatten([k \in 1..Len(teams) |->
        LET t == teams[k]
            id == ServerTeamId(k)
        IN <<CallWith("team", "create", id, t.Name,
                      [NoData EXCEPT !.name = t.Name, !.role = t.Role])>>
           \o Flatten([i \in 1..Len(t.Users) |->
                          <<Call("user", "create", id, t.Users[i].ID)>>
                          \o (IF t.Users[i].Role /= "" THEN SetUserRoleCalls(id, t.Users[i])
                              ELSE <<>>)])
           \o Flatten([i \in 1..Len(t.AppInstances) |->
                          <<Call("application", "lookup", id, t.AppInstances[i].Name),
                            CallWith("instance", "create", id,
                                     AppNamed(apps, t.AppInstances[i].Name),
                                     [NoData EXCEPT !.app = AppNamed(apps, t.AppInstances[i].Name),
                                                    !.order = t.AppInstances[i].DisplayOrder])>>])])

\* the teams as the framework's CreateTeams leaves them: under the IDs the
\* server gave, and their instances too
NewCreated(teams) ==
    [k \in 1..Len(teams) |->
        [teams[k] EXCEPT !.ID = ServerTeamId(k),
                         !.AppInstances = [j \in 1..Len(@) |-> [@[j] EXCEPT !.ID = ServerInstanceId(j)]]]]

\* api.AddPermissionsToTeam of the framework resource
NewAddPermissionsToTeamCalls(teams) ==
    Flatten([k \in 1..Len(teams) |->
        IF teams[k].Permissions = <<>> \/ teams[k].ID = "" THEN <<>>
        ELSE Flatten([j \in 1..Len(teams[k].Permissions) |->
                        <<Call("permission", "lookup", teams[k].ID, teams[k].Permissions[j]),
                          Call("permission", "create", teams[k].ID, teams[k].Permissions[j])>>])])

\* viewResource.createTeams: the declared teams keep their order; the i-th
\* of them gets the ID of the i-th of the created teams sorted by name, and
\* its instances the IDs of that team's instances sorted by name
TeamsState(declared, created) ==
    LET sorted == SortSlice(created, LAMBDA x : x.Name)
    IN [i \in 1..Len(declared) |->
           LET instances == SortSlice(sorted[i].AppInstances, LAMBDA x : x.Name)
           IN [declared[i] EXCEPT
                  !.team_id = sorted[i].ID,
                  !.app_instance =
                      IF instances = <<>> THEN @
                      ELSE [j \in 1..Len(@) |-> [@[j] EXCEPT !.id = instances[j].ID]]]]

\* the state before a creation: nothing remembered, no ID, no server
\* content yet
EngCreate(application, team, createAdmin) ==
    [EngStart(<<>>, application, <<>>, team, createAdmin, TRUE) EXCEPT !.phase = "create", !.id = ""]

\* playerViewCreate: api.CreateView and d.SetId
CreateViewStep ==
    /\ eng.phase = "create"
    /\ LET started == [eng EXCEPT !.ran = @ \cup {"playerViewCreate"}]
       IN Issue(<<Call("view", "create", "", ViewId)>>, started,
                [started EXCEPT !.phase = "createApps", !.id = ViewId])
    /\ UNCHANGED cvars

\* playerViewCreate: createApps when applications are declared
CreateAppsStep ==
    /\ eng.phase = "createApps"
    /\ LET appStructs == [i \in 1..Len(eng.newApps) |->
                            [AppInfoFromMap(eng.newApps[i]) EXCEPT
                                !.ID = IF @ = "" THEN Uuid(i) ELSE @, !.ViewID = ViewId]]
           created == [k \in 1..Len(appStructs) |-> [appStructs[k] EXCEPT !.ID = ServerAppId(k)]]
           sorted == SortedApps(created)
           started == [eng EXCEPT !.ran = @ \cup (IF appStructs = <<>> THEN {} ELSE {"createApps"})]
       IN Issue(CreateAppsCalls(appStructs), started,
                [started EXCEPT !.phase = "createTeams",
                                !.application = [i \in 1..Len(sorted) |-> AppInfoToMap(sorted[i])]])
    /\ UNCHANGED cvars

\* playerViewCreate: createTeams when teams are declared
CreateTeamsStep ==
    /\ eng.phase = "createTeams"
    /\ LET teamStructs == [i \in 1..Len(eng.newTeams) |-> TeamInfoFromMap(eng.newTeams[i])]
           resolved == ResolveParents(teamStructs, eng.application)
           sorted == SortedTeams(Created(resolved))
           started == [eng EXCEPT !.ran = @ \cup (IF teamStructs = <<>> THEN {} ELSE {"createTeams"})]
       IN Issue(CreateTeamsCalls(resolved) \o AddPermissionsToTeamCalls(Created(resolved)),
                started,
                [started EXCEPT !.phase = "read",
                                !.team = [i \in 1..Len(sorted) |-> TeamInfoToMap(sorted[i])]])
    /\ UNCHANGED cvars

\* playerViewRead, at the end of playerViewCreate and as a refresh later:
\* the server returns its lists in any of its orders
ReadView ==
    /\ \/ eng.phase = "read"
       \/ eng.phase = "done" /\ "playerViewCreate" \in eng.ran /\ "refresh" \notin eng.ran
    /\ \E s \in {Server} :
          \E appOrder \in ServerOrders(Len(s.apps)), teamOrder \in ServerOrders(Len(s.teams)),
             reversed \in BOOLEAN :
             PlayerViewRead([eng EXCEPT !.ran = @ \cup (IF eng.phase = "done" THEN {"refresh"} ELSE {})],
                            s, appOrder, teamOrder,
                            LAMBDA n : IF reversed THEN Reversed(n) ELSE AsStored(n))
    /\ UNCHANGED cvars

\* viewResource.Create: api.CreateView
ResourceCreateView ==
    /\ eng.phase = "create"
    /\ LET started == [eng EXCEPT !.ran = @ \cup {"viewResource.Create"}]
       IN Issue(<<Call("view", "create", "", ViewId)>>, started,
                [started EXCEPT !.phase = "createApplications"])
    /\ UNCHANGED cvars

\* viewResource.createApplications: the declared applications, in the order
\* declared, under the IDs the server gave
ResourceCreateApplications ==
    /\ eng.phase = "createApplications"
    /\ LET appStructs == [i \in 1..Len(eng.newApps) |->
                            [ID |-> "", Name |-> eng.newApps[i].name, ViewID |-> ViewId]]
       IN Issue(NewCreateAppsCalls(appStructs), eng,
                [eng EXCEPT !.phase = "createTeams.new",
                            !.application = [i \in 1..Len(eng.newApps) |->
                                               [eng.newApps[i] EXCEPT !.app_id = ServerAppId(i)]]])
    /\ UNCHANGED cvars

\* the permissions the server knows by name
KnownPermissions == {"p1", "p2", "p3"}

\* a lookup that the server answers and that finds nothing: getAppIDByName
\* with no application of the name in the view, getRoleByNameWithClient
\* and getPermissionIDByName with a name the server does not know
Unresolved(c, apps) ==
    /\ c.kind = "lookup"
    /\ \/ c.level = "application" /\ c.team /= "" /\ AppNamed(apps, c.key) = ""
       \/ c.level = "role" /\ RoleID(c.key) = ""
       \/ c.level = "permission" /\ c.key \notin KnownPermissions

\* the requests made of a plan: all of them, or those up to the first
\* lookup that finds nothing, where the error is returned
Resolving(plan, apps) ==
    LET bad == {i \in 1..Len(plan) : Unresolved(plan[i], apps)}
    IN IF bad = {} THEN plan
       ELSE SubSeq(plan, 1, CHOOSE i \in bad : \A j \in bad : i <= j)

\* viewResource.createTeams, and the state is saved with the ID of the
\* view; a reference that does not resolve ends it with the error
ResourceCreateTeams ==
    /\ eng.phase = "createTeams.new"
    /\ \E s \in {Server} :
          LET teamStructs == [i \in 1..Len(eng.newTeams) |->
                                [TeamInfoFromMap(eng.newTeams[i]) EXCEPT !.ID = ""]]
              created == NewCreated(teamStructs)
              plan == NewCreateTeamsCalls(teamStructs, s.apps) \o NewAddPermissionsToTeamCalls(created)
              made == Resolving(plan, s.apps)
          IN Issue(made, eng,
                   IF made = plan
                   THEN [eng EXCEPT !.phase = "done", !.id = ViewId,
                                    !.team = TeamsState(eng.newTeams, created)]
                   ELSE [eng EXCEPT !.phase = "failed", !.failed = TRUE])
    /\ UNCHANGED cvars

\* viewResource.Read: the view is looked up twice and its name, description
\* and status are put in the state, the applications and teams stay
ResourceRead ==
    /\ eng.phase = "done"
    /\ eng.ran = {"viewResource.Create"}
    /\ LET started == [eng EXCEPT !.ran = @ \cup {"viewResource.Read"}]
       IN Issue(<<Call("view", "lookup", "", ViewId), Call("view", "lookup", "", ViewId)>>,
                started, [started EXCEPT !.phase = "done"])
    /\ UNCHANGED cvars

InitCreate ==
    /\ ClientInit({1})
    /\ \E c \in Configurations, createAdmin \in BOOLEAN :
          eng = EngCreate(c[1], c[2], createAdmin)

NextCreate ==
    \/ CreateViewStep
    \/ CreateAppsStep
    \/ CreateTeamsStep
    \/ ReadView
    \/ ResourceCreateView
    \/ ResourceCreateApplications
    \/ ResourceCreateTeams
    \/ ResourceRead

SpecCreate == InitCreate /\ [][NextCreate]_vars

----------------------------------------------------------------------------
(* The order of the remembered state *)

\* no key of the list is less than the one before it
Ascending(keys) == \A i \in 1..(Len(keys) - 1) : ~StringLess(keys[i + 1], keys[i])

\* the lists of a state are in the order the reading gives them
Normalized(application, team) ==
    /\ Ascending([i \in 1..Len(application) |-> application[i].name])
    /\ Ascending([i \in 1..Len(team) |-> team[i].name])
    /\ \A i \in 1..Len(team) :
          /\ Ascending([j \in 1..Len(team[i].user) |-> team[i].user[j].user_id])
          /\ Ascending([j \in 1..Len(team[i].app_instance) |-> team[i].app_instance[j].name])

\* the same state with its lists sorted once more
Renormalized(application, team) ==
    LET sortedApps == SortedApps([i \in 1..Len(application) |-> AppInfoFromMap(application[i])])
        sortedTeams == SortedTeams([i \in 1..Len(team) |-> TeamInfoFromMap(team[i])])
    IN [application |-> [i \in 1..Len(sortedApps) |-> sortedApps[i].Name],
        team |-> [i \in 1..Len(sortedTeams) |->
                    [name |-> sortedTeams[i].Name,
                     user |-> [j \in 1..Len(sortedTeams[i].Users) |-> sortedTeams[i].Users[j].ID],
                     app_instance |-> [j \in 1..Len(sortedTeams[i].AppInstances) |->
                                          sortedTeams[i].AppInstances[j].ID]]]]

AsListed(application, team) ==
    [application |-> [i \in 1..Len(application) |-> application[i].name],
     team |-> [i \in 1..Len(team) |->
                 [name |-> team[i].name,
                  user |-> [j \in 1..Len(team[i].user) |-> team[i].user[j].user_id],
                  app_instance |-> [j \in 1..Len(team[i].app_instance) |->
                                       team[i].app_instance[j].id]]]]

\* a creation, a reading or an update has returned without error
PassDone == eng.phase = "done" /\ ~eng.failed

\* C13: after a successful creation or reading the remembered state lists
\* the applications by name, the teams by name, the users of each team by
\* user ID and the instances of each team by name, whatever the order
\* declared and the order the server returns, and sorting it once more
\* changes nothing.
C13_StateNormalized ==
    PassDone =>
        /\ Normalized(eng.application, eng.team)
        /\ Renormalized(eng.application, eng.team) = AsListed(eng.application, eng.team)

----------------------------------------------------------------------------
(* The permissions of the updated teams *)

\* the keys of the requests of a level and a kind made for a team, in the
\* order made
KeysOf(level, kind, team) ==
    LET made == SelectSeq(eng.calls,
                          LAMBDA c : c.level = level /\ c.kind = kind /\ c.team = team)
    IN [i \in 1..Len(made) |-> made[i].key]

\* the list names every element of the set once and nothing else
ExactlyOnce(list, S) == Range(list) = S /\ Len(list) = Cardinality(S)

\* C14: once updateTeams has sent the permission changes of the updated
\* teams, each updated team has been added exactly the permissions of its
\* new list that its old list lacks and removed exactly those of its old
\* list that its new list lacks, whatever other teams are updated with it;
\* a team whose permissions stay gets no permission request.
C14_PermissionsPerTeam ==
    (eng.phase = "apply" /\ ~eng.failed) =>
        \A i \in 1..Len(eng.teams.toUpdate) :
            LET old == Range(eng.teams.oldUpdated[i].Permissions)
                new == Range(eng.teams.toUpdate[i].Permissions)
                id == eng.teams.oldUpdated[i].ID
            IN /\ ExactlyOnce(KeysOf("permission", "create", id), new \ old)
               /\ ExactlyOnce(KeysOf("permission", "delete", id), old \ new)

----------------------------------------------------------------------------
(* The users of the updated teams *)

UserIDs(users) == {users[j].ID : j \in 1..Len(users)}

\* the users of both lists whose role is not the one they had
RoleChanged(old, new) ==
    {id \in UserIDs(old) \cap UserIDs(new) :
        \E a \in 1..Len(old), b \in 1..Len(new) :
            old[a].ID = id /\ new[b].ID = id /\ old[a].Role /= new[b].Role}

----------------------------------------------------------------------------
(* The instances of the updated teams *)

InstanceIDs(instances) == {instances[j].ID : j \in 1..Len(instances)}

\* the instances of both lists whose name or display order is not the one
\* they had
InstanceChanged(old, new) ==
    {id \in InstanceIDs(old) \cap InstanceIDs(new) :
        \E a \in 1..Len(old), b \in 1..Len(new) :
            /\ old[a].ID = id /\ new[b].ID = id
            /\ old[a].Name /= new[b].Name \/ old[a].DisplayOrder /= new[b].DisplayOrder}

\* updateInstances has returned without error
InstancesUpdated == eng.phase = "read" /\ ~eng.failed /\ "updateTeams" \in eng.ran

\* C16: once updateInstances has returned, each updated team has had
\* deleted exactly the old instances whose ID its new list lacks (all of
\* them when the new list is empty), created one instance for each new
\* instance whose ID its old list lacks, and updated exactly the instances
\* of both lists whose name or display order differs.
C16_InstancesPerTeam ==
    InstancesUpdated =>
        \A i \in 1..Len(eng.teams.toUpdate) :
            LET old == eng.teams.oldUpdated[i].AppInstances
                new == eng.teams.toUpdate[i].AppInstances
                id == eng.teams.oldUpdated[i].ID
            IN /\ ExactlyOnce(KeysOf("instance", "delete", id), InstanceIDs(old) \ InstanceIDs(new))
               /\ Len(KeysOf("instance", "create", id)) = Cardinality(InstanceIDs(new) \ InstanceIDs(old))
               /\ ExactlyOnce(KeysOf("instance", "update", id), InstanceChanged(old, new))

----------------------------------------------------------------------------
(* The team of the server's own making *)

\* playerViewRead has returned without error
ReadDone == eng.phase = "done" /\ ~eng.failed /\ "playerViewRead" \in eng.ran

\* how many teams of the state have the ID
TimesReported(id) == Cardinality({i \in 1..Len(eng.team) : eng.team[i].team_id = id})

\* C17: after playerViewRead, a team of the server named "Admin" is not in
\* the state when create_admin_team is set, and every other team of the
\* server, a team named "Admin" when create_admin_team is not set among
\* them, is in the state exactly once, and nothing else is.
C17_AdminTeamExcluded ==
    ReadDone =>
        \E s \in {Server} :
            /\ \A k \in 1..Len(s.teams) :
                  TimesReported(s.teams[k].id) =
                      IF eng.createAdmin /\ s.teams[k].name = "Admin" THEN 0 ELSE 1
            /\ \A i \in 1..Len(eng.team) :
                  \E k \in 1..Len(s.teams) : s.teams[k].id = eng.team[i].team_id

\* the server holds its own team and a declared team of the same name
\* beside another team
C17_Witness ==
    /\ ReadDone /\ eng.createAdmin
    /\ \E s \in {Server} :
          /\ \E k \in 1..Len(s.teams) : s.teams[k] = AdminTeam
          /\ \E k \in 1..Len(s.teams) : s.teams[k].name = "Admin" /\ s.teams[k] /= AdminTeam
          /\ \E k \in 1..Len(s.teams) : s.teams[k].name /= "Admin"
    /\ Len(eng.team) = 1

----------------------------------------------------------------------------
(* The roles that requests carry *)

\* the request carries a role, by name or by ID
CarriesRole(c) == c.data.role /= "" \/ c.data.roleId /= ""

\* C18: a request that carries a role carries the ID of the role and not
\* its name, and a lookup of the role that the server answered, giving that
\* ID, was made before it.
C18_RoleResolvedFirst ==
    \A i \in 1..Len(eng.calls) :
        CarriesRole(eng.calls[i]) =>
            /\ eng.calls[i].data.role = ""
            /\ \E j \in 1..(i - 1) :
                  /\ eng.calls[j].level = "role" /\ eng.calls[j].kind = "lookup"
                  /\ RoleID(eng.calls[j].key) = eng.calls[i].data.roleId

----------------------------------------------------------------------------
(* The order of the requests of CreateTeams *)

IsCall(c, level, kind, team) == c.level = level /\ c.kind = kind /\ c.team = team

\* the call at the place, or one that is no request when the pass made
\* fewer calls
CallAt(i) == IF i \in 1..Len(eng.calls) THEN eng.calls[i] ELSE Call("", "", "", "")

\* the role declared for the user in the team block
DeclaredRole(block, user) ==
    LET same == SelectSeq(block.user, LAMBDA u : u.user_id = user) IN same[1].role

\* the team's requests begin with the creation of the team
TeamCreatedFirst(id) ==
    \A i \in 1..Len(eng.calls) :
        (eng.calls[i].team = id /\ \A j \in 1..(i - 1) : eng.calls[j].team /= id)
            => IsCall(eng.calls[i], "team", "create", id)

\* the team's requests begin with the creation of the team, which the SDK
\* resource has follow the lookup of the team's role
TeamCreatedFirstOrRole(id) ==
    \A i \in 1..Len(eng.calls) :
        (eng.calls[i].team = id /\ \A j \in 1..(i - 1) : eng.calls[j].team /= id)
            => \/ IsCall(eng.calls[i], "team", "create", id)
               \/ /\ "playerViewCreate" \in eng.ran
                  /\ IsCall(eng.calls[i], "role", "lookup", id)
                  /\ i < Len(eng.calls) => IsCall(eng.calls[i + 1], "team", "create", id)

\* no request about a user or an instance of the team before the request
\* that created the team has returned
AfterTeamId(id) ==
    \A i \in 1..Len(eng.calls) :
        (eng.calls[i].team = id /\ eng.calls[i].level \in {"user", "membership", "instance", "application"})
            => \E j \in 1..(i - 1) : IsCall(eng.calls[j], "team", "create", id)

\* each user is added and, when a role is declared for it, its membership
\* and the role are looked up and the role is set right after; without a
\* role nothing of the kind follows
UsersInTurn(id, block) ==
    \A i \in 1..Len(eng.calls) :
        IsCall(eng.calls[i], "user", "create", id) =>
            LET user == eng.calls[i].key
                role == DeclaredRole(block, user)
            IN IF role /= ""
               THEN /\ i + 1 <= Len(eng.calls) =>
                          IsCall(CallAt(i + 1), "membership", "lookup", id) /\ CallAt(i + 1).key = user
                    /\ i + 2 <= Len(eng.calls) =>
                          IsCall(CallAt(i + 2), "role", "lookup", id) /\ CallAt(i + 2).key = role
                    /\ i + 3 <= Len(eng.calls) =>
                          IsCall(CallAt(i + 3), "user", "update", id) /\ CallAt(i + 3).key = user
               ELSE ~IsCall(CallAt(i + 1), "membership", "lookup", id)

\* the users of the team come before its instances
UsersBeforeInstances(id) ==
    \A i, j \in 1..Len(eng.calls) :
        (IsCall(eng.calls[i], "user", "create", id) /\ IsCall(eng.calls[j], "instance", "create", id))
            => i < j

\* each instance is created right after the lookup of the application
LookedUpByName(id) ==
    \A i \in 1..Len(eng.calls) :
        IsCall(eng.calls[i], "instance", "create", id) =>
            IsCall(CallAt(i - 1), "application", "lookup", id)

\* the SDK resource creates each instance under the application ID that
\* createTeams resolved, with no lookup request
ResolvedByCaller(id) ==
    \A i \in 1..Len(eng.calls) :
        /\ ~IsCall(eng.calls[i], "application", "lookup", id)
        /\ IsCall(eng.calls[i], "instance", "create", id) => eng.calls[i].data.app /= ""

\* C19 as stated: for each team the creation comes first, the users follow
\* one by one with their roles, and each instance is created right after
\* the lookup of its application by name.
C19_OrderAsStated ==
    \A k \in 1..Len(eng.newTeams) :
        /\ TeamCreatedFirst(ServerTeamId(k)) /\ AfterTeamId(ServerTeamId(k))
        /\ UsersInTurn(ServerTeamId(k), eng.newTeams[k])
        /\ UsersBeforeInstances(ServerTeamId(k))
        /\ LookedUpByName(ServerTeamId(k))

\* C19: for each team CreateTeams creates the team first, the SDK resource
\* after the lookup of the team's role; then each user is added, followed
\* when it has a role by the lookup of its membership, the lookup of the
\* role and the setting of the role; then each instance is created, by the
\* framework resource right after the lookup of its application by name, by
\* the SDK resource under the application ID its caller resolved and with
\* no lookup request; no request about a user or an instance precedes the
\* return of the team's ID.
C19_CreateTeamsOrder ==
    \A k \in 1..Len(eng.newTeams) :
        /\ TeamCreatedFirstOrRole(ServerTeamId(k)) /\ AfterTeamId(ServerTeamId(k))
        /\ UsersInTurn(ServerTeamId(k), eng.newTeams[k])
        /\ UsersBeforeInstances(ServerTeamId(k))
        /\ IF "playerViewCreate" \in eng.ran THEN ResolvedByCaller(ServerTeamId(k))
           ELSE LookedUpByName(ServerTeamId(k))

\* two teams created, one with a user that has a role, a user that has
\* none and two instances
C19_Witness ==
    /\ eng.phase = "done" /\ ~eng.failed /\ "viewResource.Create" \in eng.ran
    /\ Len(eng.newTeams) = 2
    /\ \E k \in 1..2 :
          /\ \E u \in 1..Len(eng.newTeams[k].user) : eng.newTeams[k].user[u].role = ""
          /\ Len(KeysOf("user", "update", ServerTeamId(k))) = 1
          /\ Len(KeysOf("instance", "create", ServerTeamId(k))) = 2

----------------------------------------------------------------------------
(* A failing request *)

\* the requests that undo something: none of the creation removes anything
Compensating == SelectSeq(eng.calls, LAMBDA c : c.kind = "delete")

\* the pass has made the requests before and adds some
Extends(before, after) ==
    Len(before) <= Len(after) /\ SubSeq(after, 1, Len(before)) = before

----------------------------------------------------------------------------
(* The count in the error of a batch *)

\* the request that failed, the last one of the pass
Failing == eng.calls[Len(eng.calls)]

\* the requests of the same kind the server accepted before the failure:
\* the sibling items processed, instances being siblings within their team
ItemsBefore ==
    Len(SelectSeq(Accepted, LAMBDA c : /\ c.level = Failing.level /\ c.kind = Failing.kind
                                       /\ Failing.level = "instance" => c.team = Failing.team))

\* the counts that the error of the SDK's CreateApps can carry: the index
\* of the application when the server answers with a status other than
\* 201, none when the request itself fails
CreateAppsError(call, before) == {{before}, {}}

\* the counts that the error of the SDK's CreateTeams can carry: the index
\* of the team when the creation of the team is answered with a status
\* other than 201; none when the request itself fails, and none for the
\* lookup of the role, a user or an instance of the team
CreateTeamsError(call, before) ==
    IF call.level = "team" /\ call.kind = "create" THEN {{before}, {}} ELSE {{}}

\* the counts that the errors of the framework's CreateApps and CreateTeams
\* can carry: they name the item and wrap the error of the request
NewCreateError(call, before) == {{}}

\* the counts that the error of the failed creation can carry
SurfacedCounts ==
    IF "viewResource.Create" \in eng.ran THEN NewCreateError(Failing, ItemsBefore)
    ELSE IF Failing.level = "application" THEN CreateAppsError(Failing, ItemsBefore)
    ELSE CreateTeamsError(Failing, ItemsBefore)

\* the creation of a sibling item failed
ItemFailed ==
    /\ eng.failed /\ eng.calls /= <<>>
    /\ Failing.kind = "create" /\ Failing.level \in {"application", "team", "instance"}

\* C21: when the creation of an application, a team or an instance fails,
\* the error carries the number of sibling items created before it.
C21_CountReported == ItemFailed => SurfacedCounts = {{ItemsBefore}}

----------------------------------------------------------------------------
(* References that do not resolve *)

\* team blocks with one reference each that the server cannot resolve: the
\* role of the team, the role of a user, the application of an instance,
\* a permission
ContentTeamRole == [Declared(ContentOne) EXCEPT !.name = "U", !.role = "r9"]

ContentUserRole ==
    [Declared(ContentOne) EXCEPT !.name = "U", !.user = <<User("u1", ""), User("u2", "r9")>>]

ContentApp ==
    [Declared(ContentOne) EXCEPT !.name = "U",
        !.app_instance = <<Instance("", "A", 0), Instance("", "C", 1)>>]

ContentPermission == [Declared(ContentOne) EXCEPT !.name = "U", !.permissions = <<"p1", "p9">>]

UnresolvedContents == {ContentTeamRole, ContentUserRole, ContentApp, ContentPermission}

\* configurations of the framework resource: both applications, and one or
\* two teams of which one may have a reference that does not resolve
ResolveConfigurations ==
    {<< <<AppMap("", "A"), AppMap("", "B")>>, [i \in 1..Len(l) |-> TeamMap("", l[i])] >> :
        l \in {x \in Lists(UnresolvedContents \cup {ContentLate}, 2) :
                  x /= <<>> /\ \A i, j \in 1..Len(x) : x[i].name = x[j].name => i = j}}

InitResolve ==
    /\ ClientInit({1})
    /\ \E c \in ResolveConfigurations, createAdmin \in BOOLEAN :
          eng = EngCreate(c[1], c[2], createAdmin)

NextResolve ==
    \/ ResourceCreateView
    \/ ResourceCreateApplications
    \/ ResourceCreateTeams
    \/ ResourceRead

SpecResolve == InitResolve /\ [][NextResolve]_vars

\* the team block has a reference that the server cannot resolve
HasUnresolved(block) ==
    \/ block.role /= "" /\ RoleID(block.role) = ""
    \/ \E u \in 1..Len(block.user) : block.user[u].role /= "" /\ RoleID(block.user[u].role) = ""
    \/ \E j \in 1..Len(block.app_instance) :
          \A a \in 1..Len(eng.newApps) : eng.newApps[a].name /= block.app_instance[j].name
    \/ \E p \in 1..Len(block.permissions) : block.permissions[p] \notin KnownPermissions

\* a request made on behalf of a reference that did not resolve
ForUnresolved(c) ==
    \/ c.level = "instance" /\ c.kind = "create" /\ c.data.app = ""
    \/ c.level = "user" /\ c.kind = "update" /\ c.data.roleId = ""
    \/ c.level = "permission" /\ c.kind = "create" /\ c.key \notin KnownPermissions

\* C22: a configuration with a reference that does not resolve never ends
\* its creation without error, and no instance, role or permission request
\* is made for such a reference.
C22_UnresolvedAborts ==
    (\E k \in 1..Len(eng.newTeams) : HasUnresolved(eng.newTeams[k]))
        => eng.phase /= "done" /\ \A c \in Range(eng.calls) : ~ForUnresolved(c)

----------------------------------------------------------------------------
(* The allocation of a VLAN *)

\* an attribute of the plan: null, unknown, or known with a value
Attr(state, value) == [state |-> state, value |-> value]

NullString == Attr("null", "")

NullInt == Attr("null", 0)

\* types.String.ValueString and types.Int64.ValueInt64: the value when
\* known, the zero value otherwise
ValueOf(attr, zero) == IF attr.state = "value" THEN attr.value ELSE zero

\* the plans of a VLAN: project, partition, tag and number each left out
\* or given, the number also unknown
VlanPlans ==
    [project_id : {NullString, Attr("value", ""), Attr("value", "proj")},
     partition_id : {NullString, Attr("value", "part")},
     tag : {NullString, Attr("value", "t1")},
     vlan_id : {NullInt, Attr("unknown", 0), Attr("value", 0), Attr("value", 1), Attr("value", 4094)}]

\* vlanResource.Create: the command built from the plan
VlanCreateCommand(data) ==
    [ProjectId |-> ValueOf(data.project_id, ""),
     PartitionId |-> ValueOf(data.partition_id, ""),
     Tag |-> ValueOf(data.tag, ""),
     VlanId |-> IF data.vlan_id.state = "value"
                THEN [Int32 |-> data.vlan_id.value, Valid |-> TRUE]
                ELSE [Int32 |-> 0, Valid |-> FALSE]]

\* payload[key] = value on a Go map
Put(payload, key, value) ==
    [k \in DOMAIN payload \cup {key} |-> IF k = key THEN value ELSE payload[k]]

NoPayload == [k \in {} |-> ""]

CreateVlanPayloadWhole(command) ==
    Put(Put(Put(Put(NoPayload, "projectId", command.ProjectId),
                "partitionId", command.PartitionId),
            "tag", command.Tag),
        "vlanId", command.VlanId.Int32)

\* CreateVlan: the payload gets the fields of the command that are set
CreateVlanPayload(command) ==
    LET project == IF command.ProjectId /= ""
                   THEN Put(NoPayload, "projectId", command.ProjectId) ELSE NoPayload
        partition == IF command.PartitionId /= ""
                     THEN Put(project, "partitionId", command.PartitionId) ELSE project
        tag == IF command.Tag /= "" THEN Put(partition, "tag", command.Tag) ELSE partition
    IN IF command.VlanId.Valid THEN Put(tag, "vlanId", command.VlanId.Int32) ELSE tag

VlanStart(data) ==
    [phase |-> "plan", data |-> data, command |-> VlanCreateCommand(data),
     payload |-> NoPayload, failed |-> FALSE]

\* vlanResource.Create: the command, the payload, and the request, which
\* the server accepts or not
VlanCreate ==
    /\ eng.phase = "plan"
    /\ \E accepted \in BOOLEAN :
          eng' = [eng EXCEPT !.payload = CreateVlanPayload(eng.command),
                             !.phase = IF accepted THEN "created" ELSE "failed",
                             !.failed = ~accepted]
    /\ UNCHANGED cvars

InitVlan ==
    /\ ClientInit({1})
    /\ \E data \in VlanPlans : eng = VlanStart(data)

NextVlan == VlanCreate

SpecVlan == InitVlan /\ [][NextVlan]_vars

\* the key is in the payload
InPayload(key) == key \in DOMAIN eng.payload

----------------------------------------------------------------------------
(* The base URL of an API *)

\* URLs are sequences of characters; these are the ones that matter to
\* normalizeAPIURL and one that does not
UrlChars == {"/", "a", "p", "i", "h"}

MaxUrl == 6

Urls == Lists(UrlChars, MaxUrl)

Slash == <<"/">>

SlashApi == <<"/", "a", "p", "i">>

\* strings.HasSuffix
HasSuffix(s, suffix) ==
    Len(s) >= Len(suffix) /\ SubSeq(s, Len(s) - Len(suffix) + 1, Len(s)) = suffix

\* strings.TrimSuffix: s without the suffix when it ends with it, s otherwise
TrimSuffix(s, suffix) ==
    IF HasSuffix(s, suffix) THEN SubSeq(s, 1, Len(s) - Len(suffix)) ELSE s

normalizeAPIURLApiFirst(url) ==
    TrimSuffix(TrimSuffix(url, SlashApi), Slash) \o SlashApi \o Slash

\* normalizeAPIURL: a trailing "/" is cut, then a trailing "/api", and
\* "/api/" is put at the end
normalizeAPIURL(url) ==
    TrimSuffix(TrimSuffix(url, Slash), SlashApi) \o SlashApi \o Slash

\* GetPlayerAPIURL and its like normalize the configured URL at each call
GetAPIURL ==
    /\ eng.phase = "url"
    /\ eng' = [eng EXCEPT !.phase = "normalized", !.out = normalizeAPIURL(eng.url)]
    /\ UNCHANGED cvars

\* the normalized URL given as the configured one
GetAPIURLAgain ==
    /\ eng.phase = "normalized"
    /\ eng' = [eng EXCEPT !.phase = "again", !.again = normalizeAPIURL(eng.out)]
    /\ UNCHANGED cvars

InitUrl ==
    /\ ClientInit({1})
    /\ \E url \in Urls : eng = [phase |-> "url", url |-> url, out |-> <<>>, again |-> <<>>]

NextUrl == GetAPIURL \/ GetAPIURLAgain

SpecUrl == InitUrl /\ [][NextUrl]_vars

\* the forms of a base URL: bare, with "/", with "/api", with "/api/"
Forms == {<<>>, Slash, SlashApi, SlashApi \o Slash}

\* the URL is the base in one of its forms, the base ending neither in "/"
\* nor in "/api"
FormOf(url, form) ==
    /\ HasSuffix(url, form)
    /\ ~HasSuffix(SubSeq(url, 1, Len(url) - Len(form)), Slash)
    /\ ~HasSuffix(SubSeq(url, 1, Len(url) - Len(form)), SlashApi)

\* C24: a base URL b that ends neither in "/" nor in "/api", given as b,
\* b/, b/api or b/api/, is normalized to b/api/; and a normalized URL is
\* normalized to itself.
C24_NormalizedOnce ==
    /\ eng.phase /= "url" =>
          \A form \in Forms :
              FormOf(eng.url, form) =>
                  eng.out = SubSeq(eng.url, 1, Len(eng.url) - Len(form)) \o SlashApi \o Slash
    /\ eng.phase = "again" => eng.again = eng.out

\* the base h given as h/api/ and normalized twice
C24_Witness ==
    /\ eng.phase = "again"
    /\ eng.url = <<"h", "/", "a", "p", "i", "/">>
    /\ eng.out = eng.url /\ eng.again = eng.url

----------------------------------------------------------------------------
(* A request that gets no response *)

\* the attempts of the call that got no response
Unanswered(call) == {i \in 1..Len(call) : call[i].status = 0}

\* C25: an attempt of DoRequest that ends without a response, the first or
\* the retry after a 401, is the last one: DoRequest returns the error and
\* no response, the cached token is still the one the attempt carried, and
\* the token endpoint has not been called since the attempt was made.
C25_TransportErrorReturns ==
    \A p \in procs :
        LET c == LastCall(p) IN
        (Returned(p) /\ op[p].kind = "DoRequest" /\ Unanswered(c) /= {}) =>
            /\ Unanswered(c) = {Len(c)}
            /\ Len(c) = 1 \/ (Len(c) = 2 /\ c[1].status = 401)
            /\ res[p].err = Transport /\ res[p].resp = NoResp
            /\ token /= NoToken /\ token.access = c[Len(c)].auth
            /\ exchanges = c[Len(c)].ex

\* a retry after a 401 that got no response
C25_Witness ==
    \E p \in procs :
        LET c == LastCall(p) IN
        /\ Returned(p) /\ op[p].kind = "DoRequest" /\ Len(c) = 2
        /\ c[1].status = 401 /\ c[2].status = 0
        /\ c[2].auth /= c[1].auth
        /\ res[p].err = Transport
        /\ token.access = c[2].auth /\ exchanges = c[2].ex

----------------------------------------------------------------------------
(* Goroutines that share the client and make one request each, all within *)
(* one tick of the clock: no token expires between the requests.          *)

NextShared ==
    \E p \in procs :
          \/ nops[p] = 0 /\ CallDoRequest(p)
          \/ GetTokenRLock(p)
          \/ GetTokenFast(p)
          \/ GetTokenLock(p)
          \/ GetTokenCheck(p)
          \/ GetTokenFetch(p)
          \/ DoRequestSend(p, {EmptyBody})
          \/ DoRequestInvalidate(p)
          \/ DoRequestRetry(p, {EmptyBody})

SpecShared == InitCallers /\ [][NextShared]_vars

\* the request of the goroutine was answered 401 and has been sent again
Retried(p) ==
    op[p].kind = "DoRequest" /\ Len(attempts[p]) = 2 /\ attempts[p][1].status = 401

\* C26: two requests that carried the same token and were both answered
\* 401 are retried with one and the same new token, and one exchange has
\* been made since they were sent, when no exchange fails.
C26_OneExchange ==
    \A p, q \in procs :
        (/\ p /= q /\ Len(issued) = exchanges
         /\ Retried(p) /\ Retried(q)
         /\ attempts[p][1].auth = attempts[q][1].auth) =>
            /\ attempts[p][2].auth = attempts[q][2].auth
            /\ exchanges = attempts[p][1].ex + 1

----------------------------------------------------------------------------
(* The IDs in the state of a created view *)

\* the team of the state is the server's team of that name, and each of
\* its instances the server's instance of that name in the team
TrackedByName(s, t) ==
    \E r \in Range(s.teams) :
        /\ r.name = t.name /\ r.id = t.team_id
        /\ \A j \in 1..Len(t.app_instance) :
              \E x \in Range(r.instances) :
                  /\ x.id = t.app_instance[j].id
                  /\ NameOfApp(s.apps, x.app) = t.app_instance[j].name

\* C27: after viewResource.Create has returned without error, each team in
\* the state has the ID the server gave to the team of its name, and each
\* instance the ID the server gave to the instance of its name in that team.
C27_IDsByName ==
    (eng.phase = "done" /\ ~eng.failed /\ "viewResource.Create" \in eng.ran) =>
        \E s \in {Server} : \A i \in 1..Len(eng.team) : TrackedByName(s, eng.team[i])

----------------------------------------------------------------------------
(* The application of a created instance *)

\* the instances of a desired team that the update has to create: all of
\* them when the team is new, those with an ID the old team lacks when the
\* team is updated
ToBeCreated(t) ==
    LET old == SelectSeq(eng.oldTeams, LAMBDA o : o.team_id = t.team_id)
    IN IF old = <<>> THEN Range(t.app_instance)
       ELSE {x \in Range(t.app_instance) :
                \A j \in 1..Len(old[1].app_instance) : old[1].app_instance[j].id /= x.id}

\* a desired application has the name
Desired(name) == \E a \in Range(eng.newApps) : a.name = name

\* the IDs of the applications of the view that have the name
Named(s, name) == {a.id : a \in {x \in Range(s.apps) : x.name = name}}

\* the requests that created an instance
InstanceCreates == SelectSeq(eng.calls, LAMBDA c : c.level = "instance" /\ c.kind = "create")

\* C28: after an update that changed applications and teams, every
\* instance to be created that is named after a desired application has
\* been created under the ID of an application of that name, and no
\* instance has been created without an application.
C28_InstancesBound ==
    (/\ InstancesUpdated /\ "updateApps" \in eng.ran
     /\ UniqueKeys(eng.newTeams, "team_id")) =>
        /\ \A c \in Range(InstanceCreates) : c.data.app /= ""
        /\ \E s \in {Server} :
              \A k \in 1..Len(eng.newTeams) : \A x \in ToBeCreated(eng.newTeams[k]) :
                  Desired(x.name) =>
                      \E c \in Range(InstanceCreates) :
                          c.data.app \in Named(s, x.name) /\ c.data.order = x.display_order

----------------------------------------------------------------------------
(* The ID of a created view *)

\* the server has accepted the creation of the view
ViewCreated == \E c \in Range(Accepted) : c.level = "view" /\ c.kind = "create"

\* C29: once the creation has returned, with or without error, a view
\* that the server created has its ID in the state.
C29_ViewTracked ==
    (eng.phase \in {"done", "failed"} /\ ViewCreated) => eng.id = ViewId

----------------------------------------------------------------------------
(* The role of a user an update adds to a team *)

\* the users an updated team gains that declare a role of their own
AddedWithRole(old, new) ==
    {j \in 1..Len(new) : ~UserHasID(old, new[j].ID) /\ new[j].Role /= ""}

\* the call at position a adds the user to the team, and a later call sets
\* the user's role in the team to the declared one
RoleSetAfterAdd(team, user) ==
    \E a, b \in 1..Len(eng.calls) :
        /\ a < b
        /\ IsCall(eng.calls[a], "user", "create", team) /\ eng.calls[a].key = user.ID
        /\ IsCall(eng.calls[b], "user", "update", team) /\ eng.calls[b].key = user.ID
        /\ eng.calls[b].data.roleId = RoleID(user.Role)

\* C30: after an update pass that succeeded, every user with a role of its
\* own that the pass added to an existing team has had the role set in the
\* team, by a call made after the one that added the user.
C30_AddedUserRoleSet ==
    InstancesUpdated =>
        \A i \in 1..Len(eng.teams.toUpdate) :
            \A j \in AddedWithRole(eng.teams.oldUpdated[i].Users, eng.teams.toUpdate[i].Users) :
                RoleSetAfterAdd(eng.teams.toUpdate[i].ID, eng.teams.toUpdate[i].Users[j])

====
